---- MODULE Spec2Model ----
(***************************************************************************)
(* Model of the complaint classifier, trained_models/standalone_ml.py:     *)
(* the StandaloneMLService object (corpus load, pattern-table build,       *)
(* classify_user_query) and the request handlers that call the one shared  *)
(* ml_service.  A call in progress is a frame: its position and its        *)
(* locals.  Handlers differ in nothing but the call they run, so the calls *)
(* in progress are kept as a bag of frames.                                *)
(*                                                                         *)
(* Texts are TLA+ strings, read character by character with Len, SubSeq    *)
(* and \o.  A Python dict is a sequence of records [k, v] in insertion     *)
(* order, so that iteration order and the first-maximum rule of max() are  *)
(* part of the model.  Category scores are kept in halves (the code adds   *)
(* 2 and 0.5: here 4 and 1); priority scores are the code's integers.      *)
(* Texts and corpus lines are ASCII, with blank, tab, newline and carriage *)
(* return as the whitespace characters.                                    *)
(***************************************************************************)
EXTENDS Naturals, Sequences, FiniteSets, Bags, TLC

VARIABLES
    csv_file,     \* cmsdata.csv as the process finds it (the environment)
    ctor,         \* position in StandaloneMLService.__init__
    ml_service,   \* the fields of the one shared service object
    constructed,  \* history: ml_service as it was when __init__ returned
    calls,        \* the calls of classify_user_query in progress: a bag of frames
    db,           \* the committed rows of the tables of models/complaint.py
    requests      \* the requests that write to those tables: a bag of request records

vars == <<csv_file, ctor, ml_service, constructed, calls, db, requests>>

-----------------------------------------------------------------------------
(* Characters and strings *)

UpperCase == "ABCDEFGHIJKLMNOPQRSTUVWXYZ"
LowerCase == "abcdefghijklmnopqrstuvwxyz"
Digits == "0123456789"
WhiteSpace == " \t\n\r"

\* c in s, for a one-character string c
CharIn(c, s) == \E i \in 1..Len(s) : SubSeq(s, i, i) = c

\* s.index(c): the first position of c in s
IndexOf(c, s) ==
    CHOOSE i \in 1..Len(s) :
        /\ SubSeq(s, i, i) = c
        /\ \A j \in 1..(i - 1) : SubSeq(s, j, j) # c

\* str.lower() on one character
lower_char(c) ==
    IF CharIn(c, UpperCase)
    THEN LET i == IndexOf(c, UpperCase) IN SubSeq(LowerCase, i, i)
    ELSE c

RECURSIVE str_lower(_)
str_lower(s) ==
    IF Len(s) = 0 THEN ""
    ELSE lower_char(SubSeq(s, 1, 1)) \o str_lower(SubSeq(s, 2, Len(s)))

\* p in s (Python substring test)
str_in(p, s) ==
    \E i \in 1..(Len(s) + 1) :
        /\ i + Len(p) - 1 <= Len(s)
        /\ SubSeq(s, i, i + Len(p) - 1) = p

\* re.sub(r'[^a-zA-Z0-9\s]', ' ', s)
RECURSIVE re_sub_nonword(_)
re_sub_nonword(s) ==
    IF Len(s) = 0 THEN ""
    ELSE LET c == SubSeq(s, 1, 1)
             keep == CharIn(c, LowerCase) \/ CharIn(c, UpperCase)
                     \/ CharIn(c, Digits) \/ CharIn(c, WhiteSpace)
         IN (IF keep THEN c ELSE " ") \o re_sub_nonword(SubSeq(s, 2, Len(s)))

\* str.split(): the maximal runs of non-whitespace characters, in order
RECURSIVE split_from(_, _, _)
split_from(s, i, cur) ==
    IF i > Len(s) THEN (IF Len(cur) = 0 THEN <<>> ELSE <<cur>>)
    ELSE LET c == SubSeq(s, i, i) IN
         IF CharIn(c, WhiteSpace)
         THEN (IF Len(cur) = 0 THEN <<>> ELSE <<cur>>) \o split_from(s, i + 1, "")
         ELSE split_from(s, i + 1, cur \o c)

str_split(s) == split_from(s, 1, "")

\* as longer_than_two, had line 115 read `len(word) > 1`
longer_than_one(ws) == SelectSeq(ws, LAMBDA w : Len(w) > 1)

\* [w for w in ws if len(w) > 2]
RECURSIVE longer_than_two(_)
longer_than_two(ws) ==
    IF ws = <<>> THEN <<>>
    ELSE (IF Len(Head(ws)) > 2 THEN <<Head(ws)>> ELSE <<>>)
         \o longer_than_two(Tail(ws))

extract_words(text) ==
    longer_than_two(str_split(re_sub_nonword(str_lower(text))))

\* as any_in, had the keywords been looked up among the tokens of the text
any_token(kws, query_lower) ==
    \E tokens \in {str_split(re_sub_nonword(query_lower))} :
        \E i \in 1..Len(kws) : \E j \in 1..Len(tokens) : tokens[j] = kws[i]

\* any(word in query_lower for word in kws)
any_in(kws, query_lower) == \E i \in 1..Len(kws) : str_in(kws[i], query_lower)

-----------------------------------------------------------------------------
(* Python dicts: sequences of [k, v] in insertion order *)

dict_has(d, key) == \E i \in 1..Len(d) : d[i].k = key

dict_get(d, key, default) ==
    IF dict_has(d, key)
    THEN d[CHOOSE i \in 1..Len(d) : d[i].k = key].v
    ELSE default

\* d[key] = val: in place when the key exists, else a new last entry
dict_set(d, key, val) ==
    IF dict_has(d, key)
    THEN [i \in 1..Len(d) |-> IF d[i].k = key THEN [k |-> key, v |-> val] ELSE d[i]]
    ELSE Append(d, [k |-> key, v |-> val])

\* max(d, key=d.get): the first key, in iteration order, with the largest value
dict_argmax(d) ==
    d[CHOOSE i \in 1..Len(d) :
        /\ \A j \in 1..Len(d) : d[j].v <= d[i].v
        /\ \A j \in 1..(i - 1) : d[j].v < d[i].v].k

\* max(d.values())
dict_max_value(d) ==
    d[CHOOSE i \in 1..Len(d) : \A j \in 1..Len(d) : d[j].v <= d[i].v].v

\* word in patterns (list membership)
list_has(patterns, word) == \E i \in 1..Len(patterns) : patterns[i] = word

-----------------------------------------------------------------------------
(* load_csv_data: the corpus file and its parsing *)

\* The exceptions open() and readlines() raise on a file that exists
FileErrors == {"PermissionError", "UnicodeDecodeError"}

\* as caught_by_load, had line 52 read `except OSError`
caught_by_load_os_only(exc) == exc = "PermissionError"

\* `except Exception` (line 52) catches every one of them
caught_by_load(exc) == exc \in FileErrors

RECURSIVE str_lstrip(_, _)
str_lstrip(s, chars) ==
    IF Len(s) > 0 /\ CharIn(SubSeq(s, 1, 1), chars)
    THEN str_lstrip(SubSeq(s, 2, Len(s)), chars)
    ELSE s

RECURSIVE str_rstrip(_, _)
str_rstrip(s, chars) ==
    IF Len(s) > 0 /\ CharIn(SubSeq(s, Len(s), Len(s)), chars)
    THEN str_rstrip(SubSeq(s, 1, Len(s) - 1), chars)
    ELSE s

\* s.strip(chars)
str_strip(s, chars) == str_rstrip(str_lstrip(s, chars), chars)

\* s.split(sep, maxsplit) for a one-character sep
RECURSIVE str_split_sep(_, _, _)
str_split_sep(s, sep, maxsplit) ==
    IF maxsplit = 0 \/ ~CharIn(sep, s) THEN <<s>>
    ELSE LET i == IndexOf(sep, s) IN
         <<SubSeq(s, 1, i - 1)>>
         \o str_split_sep(SubSeq(s, i + 1, Len(s)), sep, maxsplit - 1)

\* as parse_lines, had the loop ended (break) at the first line with too few parts
RECURSIVE parse_lines_until_malformed(_)
parse_lines_until_malformed(lines) ==
    IF lines = <<>> THEN <<>>
    ELSE LET parts == str_split_sep(str_strip(Head(lines), WhiteSpace), ",", 2) IN
         IF Len(parts) >= 3
         THEN <<[query    |-> str_strip(parts[1], "\""),
                 category |-> str_strip(parts[2], "\""),
                 priority |-> str_strip(parts[3], "\"")]>>
              \o parse_lines_until_malformed(Tail(lines))
         ELSE <<>>

\* the body of `for line in lines[1:]`, over the lines it is given
RECURSIVE parse_lines(_)
parse_lines(lines) ==
    IF lines = <<>> THEN <<>>
    ELSE LET parts == str_split_sep(str_strip(Head(lines), WhiteSpace), ",", 2) IN
         (IF Len(parts) >= 3
          THEN <<[query    |-> str_strip(parts[1], "\""),
                  category |-> str_strip(parts[2], "\""),
                  priority |-> str_strip(parts[3], "\"")]>>
          ELSE <<>>)
         \o parse_lines(Tail(lines))

\* lines[1:]
skip_header(lines) == IF lines = <<>> THEN <<>> ELSE Tail(lines)

-----------------------------------------------------------------------------
(* setup_default_patterns and build_patterns *)

DefaultCategoryPatterns == <<
    [k |-> "Technical",
     v |-> <<"login", "password", "portal", "wifi", "internet", "network",
             "computer", "laptop", "software", "email", "lms", "system">>],
    [k |-> "Academic",
     v |-> <<"grade", "marks", "exam", "attendance", "lecture", "class",
             "assignment", "certificate", "transfer", "timetable", "professor">>],
    [k |-> "Hostel/Mess",
     v |-> <<"hostel", "room", "mess", "food", "meal", "accommodation",
             "furniture", "allotment", "quality", "dining">>],
    [k |-> "Maintenance",
     v |-> <<"maintenance", "repair", "broken", "electricity", "water", "tap",
             "elevator", "cleaning", "lighting", "conditioning">>] >>

DefaultPriorityPatterns == <<
    [k |-> "urgent",
     v |-> <<"urgent", "emergency", "immediately", "broken", "not", "working",
             "critical">>],
    [k |-> "high",
     v |-> <<"important", "soon", "needed", "missing", "exam", "grade",
             "deteriorated">>],
    [k |-> "medium",
     v |-> <<"moderate", "normal", "permission", "competition", "week">>],
    [k |-> "low",
     v |-> <<"later", "minor", "simple", "routine", "cleaning", "dim">>] >>

setup_default_patterns(self) ==
    [self EXCEPT !.category_patterns = DefaultCategoryPatterns,
                 !.priority_patterns = DefaultPriorityPatterns]

\* the try block of load_csv_data for a file that exists and reads cleanly
load_lines(self, lines) ==
    [self EXCEPT !.training_data = self.training_data \o parse_lines(skip_header(lines)),
                 !.models_loaded = TRUE]

\* load_csv_data; file.error is the exception open()/readlines() raises, if any
load_csv_data(self, file) ==
    IF ~file.exists THEN setup_default_patterns(self)
    ELSE IF file.error # "none" THEN setup_default_patterns(self)
    ELSE load_lines(self, file.lines)

\* does an exception leave load_csv_data?
load_raises(file) ==
    file.exists /\ file.error # "none" /\ ~caught_by_load(file.error)

\* for word in words: counts[word] = counts.get(word, 0) + 1
RECURSIVE count_words(_, _)
count_words(counts, words) ==
    IF words = <<>> THEN counts
    ELSE IF dict_has(counts, Head(words))
    THEN count_words(dict_set(counts, Head(words), dict_get(counts, Head(words), 0) + 1),
                     Tail(words))
    ELSE count_words(dict_set(counts, Head(words), 1), Tail(words))

\* lines 66-78 for one of the two tables: field is "category" or "priority"
RECURSIVE label_words(_, _, _)
label_words(acc, items, field) ==
    IF items = <<>> THEN acc
    ELSE IF ~dict_has(acc, Head(items)[field])
    THEN label_words(dict_set(acc, Head(items)[field], <<>>), items, field)
    ELSE label_words(dict_set(acc, Head(items)[field],
                              count_words(dict_get(acc, Head(items)[field], <<>>),
                                          extract_words(Head(items).query))),
                     Tail(items), field)

\* as rank_by_count, had the sort put the later of two equal counts first
rank_by_count_later_first(items, i) ==
    1 + Cardinality({j \in 1..Len(items) :
                        items[j].v > items[i].v \/ (items[j].v = items[i].v /\ j > i)})

\* where sorted(..., reverse=True) puts items[i]: behind every entry with a larger
\* count and every earlier entry with the same count (the sort is stable)
rank_by_count(items, i) ==
    1 + Cardinality({j \in 1..Len(items) :
                        items[j].v > items[i].v \/ (items[j].v = items[i].v /\ j < i)})

\* sorted(words.items(), key=lambda x: x[1], reverse=True)
sorted_by_count(items) ==
    [p \in 1..Len(items) |->
        items[CHOOSE i \in 1..Len(items) : rank_by_count(items, i) = p]]

CategoryTopN == 50
PriorityTopN == 30

\* as take, cutting one entry late: s[:n + 1]
take_one_more(s, n) == SubSeq(s, 1, IF Len(s) < n + 1 THEN Len(s) ELSE n + 1)

\* s[:n]
take(s, n) == SubSeq(s, 1, IF Len(s) < n THEN Len(s) ELSE n)

\* as repeated_words, had the filter read `count >= 1`
repeated_words_from_one(items) == [i \in 1..Len(items) |-> items[i].k]

\* count > 1
counted_more_than_once(entry) == entry.v > 1

\* [word for word, count in items]
entry_words(items) == [j \in 1..Len(items) |-> items[j].k]

\* [word for word, count in sorted_words if count > 1]
repeated_words(items) == entry_words(SelectSeq(items, counted_more_than_once))

\* lines 81-85 / 87-91: one list per label, in the labels' insertion order
top_patterns(words_by_label, n) ==
    [i \in 1..Len(words_by_label) |->
        [k |-> words_by_label[i].k,
         v |-> repeated_words(take(sorted_by_count(words_by_label[i].v), n))]]

\* as build_patterns, without the fallback of lines 58-60
build_patterns_without_fallback(self) ==
    [self EXCEPT
        !.category_patterns =
            top_patterns(label_words(<<>>, self.training_data, "category"), CategoryTopN),
        !.priority_patterns =
            top_patterns(label_words(<<>>, self.training_data, "priority"), PriorityTopN)]

build_patterns(self) ==
    IF self.training_data = <<>> THEN setup_default_patterns(self)
    ELSE [self EXCEPT
            !.category_patterns =
                top_patterns(label_words(<<>>, self.training_data, "category"), CategoryTopN),
            !.priority_patterns =
                top_patterns(label_words(<<>>, self.training_data, "priority"), PriorityTopN)]


-----------------------------------------------------------------------------
(* The enumerations of models/complaint.py *)

ComplaintCategory == {"Technical", "Academic", "Hostel/Mess", "Maintenance"}

ComplaintPriority == {"low", "medium", "high", "urgent"}

-----------------------------------------------------------------------------
(* classify_user_query and its helpers *)

Pair(category, priority) == [category |-> category, priority |-> priority]

\* (None, None): no rule matched
NoMatch == [matched |-> FALSE, category |-> "", priority |-> ""]

Match(category, priority) ==
    [matched |-> TRUE, category |-> category, priority |-> priority]

\* as rule_based_classification, with the room rule tried before the electrical rule
rule_based_room_first(query_lower) ==
    IF any_in(<<"water", "tap", "leak", "plumbing", "pipe", "drainage">>, query_lower)
    THEN IF any_in(<<"hostel", "room", "mess">>, query_lower)
         THEN Match("Hostel/Mess", "urgent")
         ELSE Match("Maintenance", "urgent")
    ELSE IF any_in(<<"room", "furniture", "bed", "chair", "table">>, query_lower)
    THEN Match("Hostel/Mess", "medium")
    ELSE IF any_in(<<"electricity", "power", "light", "bulb", "electrical">>, query_lower)
    THEN IF any_in(<<"hostel", "room">>, query_lower)
         THEN Match("Hostel/Mess", "urgent")
         ELSE Match("Maintenance", "high")
    ELSE IF any_in(<<"food", "meal", "mess", "dining", "kitchen", "quality">>, query_lower)
    THEN Match("Hostel/Mess", "high")
    ELSE IF any_in(<<"login", "portal", "password", "access">>, query_lower)
    THEN Match("Technical", "urgent")
    ELSE IF any_in(<<"wifi", "internet", "network", "connection">>, query_lower)
    THEN Match("Technical", "urgent")
    ELSE IF any_in(<<"grade", "marks", "exam", "certificate", "attendance">>, query_lower)
    THEN Match("Academic", "high")
    ELSE IF any_in(<<"broken", "repair", "fix", "maintenance", "elevator", "lift">>, query_lower)
    THEN Match("Maintenance", "urgent")
    ELSE NoMatch

\* as rule_based_classification, with the academic rule (lines 193-195) left out
rule_based_without_academic(query_lower) ==
    IF any_in(<<"water", "tap", "leak", "plumbing", "pipe", "drainage">>, query_lower)
    THEN IF any_in(<<"hostel", "room", "mess">>, query_lower)
         THEN Match("Hostel/Mess", "urgent")
         ELSE Match("Maintenance", "urgent")
    ELSE IF any_in(<<"electricity", "power", "light", "bulb", "electrical">>, query_lower)
    THEN IF any_in(<<"hostel", "room">>, query_lower)
         THEN Match("Hostel/Mess", "urgent")
         ELSE Match("Maintenance", "high")
    ELSE IF any_in(<<"food", "meal", "mess", "dining", "kitchen", "quality">>, query_lower)
    THEN Match("Hostel/Mess", "high")
    ELSE IF any_in(<<"room", "furniture", "bed", "chair", "table">>, query_lower)
    THEN Match("Hostel/Mess", "medium")
    ELSE IF any_in(<<"login", "portal", "password", "access">>, query_lower)
    THEN Match("Technical", "urgent")
    ELSE IF any_in(<<"wifi", "internet", "network", "connection">>, query_lower)
    THEN Match("Technical", "urgent")
    ELSE IF any_in(<<"broken", "repair", "fix", "maintenance", "elevator", "lift">>, query_lower)
    THEN Match("Maintenance", "urgent")
    ELSE NoMatch

\* as rule_based_classification, with wifi left out of the keywords of line 190
rule_based_without_wifi(query_lower) ==
    IF any_in(<<"water", "tap", "leak", "plumbing", "pipe", "drainage">>, query_lower)
    THEN IF any_in(<<"hostel", "room", "mess">>, query_lower)
         THEN Match("Hostel/Mess", "urgent")
         ELSE Match("Maintenance", "urgent")
    ELSE IF any_in(<<"electricity", "power", "light", "bulb", "electrical">>, query_lower)
    THEN IF any_in(<<"hostel", "room">>, query_lower)
         THEN Match("Hostel/Mess", "urgent")
         ELSE Match("Maintenance", "high")
    ELSE IF any_in(<<"food", "meal", "mess", "dining", "kitchen", "quality">>, query_lower)
    THEN Match("Hostel/Mess", "high")
    ELSE IF any_in(<<"room", "furniture", "bed", "chair", "table">>, query_lower)
    THEN Match("Hostel/Mess", "medium")
    ELSE IF any_in(<<"login", "portal", "password", "access">>, query_lower)
    THEN Match("Technical", "urgent")
    ELSE IF any_in(<<"internet", "network", "connection">>, query_lower)
    THEN Match("Technical", "urgent")
    ELSE IF any_in(<<"grade", "marks", "exam", "certificate", "attendance">>, query_lower)
    THEN Match("Academic", "high")
    ELSE IF any_in(<<"broken", "repair", "fix", "maintenance", "elevator", "lift">>, query_lower)
    THEN Match("Maintenance", "urgent")
    ELSE NoMatch

rule_based_classification(query_lower) ==
    IF any_in(<<"water", "tap", "leak", "plumbing", "pipe", "drainage">>, query_lower)
    THEN IF any_in(<<"hostel", "room", "mess">>, query_lower)
         THEN Match("Hostel/Mess", "urgent")
         ELSE Match("Maintenance", "urgent")
    ELSE IF any_in(<<"electricity", "power", "light", "bulb", "electrical">>, query_lower)
    THEN IF any_in(<<"hostel", "room">>, query_lower)
         THEN Match("Hostel/Mess", "urgent")
         ELSE Match("Maintenance", "high")
    ELSE IF any_in(<<"food", "meal", "mess", "dining", "kitchen", "quality">>, query_lower)
    THEN Match("Hostel/Mess", "high")
    ELSE IF any_in(<<"room", "furniture", "bed", "chair", "table">>, query_lower)
    THEN Match("Hostel/Mess", "medium")
    ELSE IF any_in(<<"login", "portal", "password", "access">>, query_lower)
    THEN Match("Technical", "urgent")
    ELSE IF any_in(<<"wifi", "internet", "network", "connection">>, query_lower)
    THEN Match("Technical", "urgent")
    ELSE IF any_in(<<"grade", "marks", "exam", "certificate", "attendance">>, query_lower)
    THEN Match("Academic", "high")
    ELSE IF any_in(<<"broken", "repair", "fix", "maintenance", "elevator", "lift">>, query_lower)
    THEN Match("Maintenance", "urgent")
    ELSE NoMatch

\* as partial_credit, had line 138 read `if pattern in word`
partial_credit_one_way(word, patterns) ==
    Cardinality({j \in 1..Len(patterns) : str_in(patterns[j], word)})

\* the partial-match credit of one word against one pattern list (in halves)
RECURSIVE partial_credit(_, _)
partial_credit(word, patterns) ==
    IF patterns = <<>> THEN 0
    ELSE (IF str_in(Head(patterns), word) \/ str_in(word, Head(patterns)) THEN 1 ELSE 0)
         + partial_credit(word, Tail(patterns))

\* lines 131-139: one category's score over the words (in halves)
RECURSIVE category_score(_, _)
category_score(words, patterns) ==
    IF words = <<>> THEN 0
    ELSE (IF list_has(patterns, Head(words)) THEN 4 ELSE 0)
         + partial_credit(Head(words), patterns)
         + category_score(Tail(words), patterns)

\* lines 129-140
score_categories(category_patterns, words) ==
    [i \in 1..Len(category_patterns) |->
        [k |-> category_patterns[i].k,
         v |-> category_score(words, category_patterns[i].v)]]

\* category_scores[label] = category_scores.get(label, 0) + boost
boost(scores, label, amount) == dict_set(scores, label, dict_get(scores, label, 0) + amount)

boost_if(cond, scores, label, amount) ==
    IF cond THEN boost(scores, label, amount) ELSE scores

\* one boost per keyword of keys that occurs in the text
RECURSIVE boost_each(_, _, _, _, _)
boost_each(keys, query_lower, scores, label, amount) ==
    IF keys = <<>> THEN scores
    ELSE boost_each(Tail(keys), query_lower,
                    boost_if(str_in(Head(keys), query_lower), scores, label, amount),
                    label, amount)

\* as apply_context_rules, had each keyword that occurs added its boost
apply_context_rules_per_keyword(query_lower, category_scores) ==
    LET s1 == boost_each(<<"hostel", "room">>, query_lower, category_scores, "Hostel/Mess", 6)
        s2 == boost_each(<<"broken", "not working", "repair", "fix">>, query_lower,
                         s1, "Maintenance", 4)
        s3 == boost_each(<<"portal", "system", "software", "computer">>, query_lower,
                         s2, "Technical", 4)
        s4 == boost_each(<<"exam", "grade", "class", "lecture">>, query_lower,
                         s3, "Academic", 4)
    IN s4

\* boosts are in halves: +3 is 6, +2 is 4
apply_context_rules(query_lower, category_scores) ==
    LET s1 == boost_if(str_in("hostel", query_lower) \/ str_in("room", query_lower),
                       category_scores, "Hostel/Mess", 6)
        s2 == boost_if(any_in(<<"broken", "not working", "repair", "fix">>, query_lower),
                       s1, "Maintenance", 4)
        s3 == boost_if(any_in(<<"portal", "system", "software", "computer">>, query_lower),
                       s2, "Technical", 4)
        s4 == boost_if(any_in(<<"exam", "grade", "class", "lecture">>, query_lower),
                       s3, "Academic", 4)
    IN s4

\* line 145
predict_category(category_scores) ==
    IF category_scores # <<>> THEN dict_argmax(category_scores) ELSE "Technical"

\* line 150: sum(2 if word in patterns else 0 for word in words)
RECURSIVE priority_score(_, _)
priority_score(words, patterns) ==
    IF words = <<>> THEN 0
    ELSE (IF list_has(patterns, Head(words)) THEN 2 ELSE 0)
         + priority_score(Tail(words), patterns)

\* lines 148-151
score_priorities(priority_patterns, words) ==
    [i \in 1..Len(priority_patterns) |->
        [k |-> priority_patterns[i].k,
         v |-> priority_score(words, priority_patterns[i].v)]]

apply_priority_context(query_lower, category, priority_scores) ==
    LET s1 == boost_if(any_in(<<"urgent", "emergency", "immediately", "asap">>, query_lower),
                       priority_scores, "urgent", 5)
        s2 == boost_if(any_in(<<"broken", "not working", "damaged">>, query_lower),
                       s1, "urgent", 3)
        s3 == boost_if(any_in(<<"important", "needed", "required", "missing">>, query_lower),
                       s2, "high", 2)
        s4 == boost_if(any_in(<<"exam", "grade", "certificate">>, query_lower),
                       s3, "high", 2)
        s5 == boost_if(category = "Maintenance"
                       /\ any_in(<<"water", "electricity", "elevator">>, query_lower),
                       s4, "urgent", 2)
        s6 == boost_if(category = "Technical"
                       /\ any_in(<<"login", "portal", "wifi">>, query_lower),
                       s5, "urgent", 2)
    IN s6

\* line 156: max() of an empty sequence raises ValueError
predict_priority_raises(priority_scores) == priority_scores = <<>>

\* as predict_priority, had line 156 taken max() whatever the maximum is
predict_priority_without_floor(priority_scores) == dict_argmax(priority_scores)

predict_priority(priority_scores) ==
    IF dict_max_value(priority_scores) > 0 THEN dict_argmax(priority_scores) ELSE "medium"

\* The outcome of one whole call on fixed tables: a returned pair or an exception
Returned(category, priority) ==
    [raised |-> FALSE, category |-> category, priority |-> priority]

Raised == [raised |-> TRUE, category |-> "", priority |-> ""]

classify_user_query(self, query) ==
    LET words == extract_words(query)
        query_lower == str_lower(query)
        rule == rule_based_classification(query_lower)
        category_scores ==
            apply_context_rules(query_lower, score_categories(self.category_patterns, words))
        predicted_category == predict_category(category_scores)
        priority_scores ==
            apply_priority_context(query_lower, predicted_category,
                                   score_priorities(self.priority_patterns, words))
    IN IF rule.matched THEN Returned(rule.category, rule.priority)
       ELSE IF predict_priority_raises(priority_scores) THEN Raised
       ELSE Returned(predicted_category, predict_priority(priority_scores))


-----------------------------------------------------------------------------
(* The inputs: corpus files and query texts *)

File(lines) == [exists |-> TRUE, error |-> "none", lines |-> lines]

MissingFile == [exists |-> FALSE, error |-> "none", lines |-> <<>>]

UnreadableFile(exc) == [exists |-> TRUE, error |-> exc, lines |-> <<>>]

Header == "query,category,priority\n"

\* labels of the enumerations; the first category seen is not Technical
CorpusInDomain == File(<<
    Header,
    "\"lecture hall projector\",\"Academic\",\"low\"\n",
    "\"projector lecture schedule\",\"Academic\",\"low\"\n",
    "\"printer system error\",\"Technical\",\"high\"\n",
    "\"printer system crash\",\"Technical\",\"high\"\n" >>)

\* labels outside the enumerations
CorpusOtherLabels == File(<<
    Header,
    "\"library books overdue\",\"Library\",\"normal\"\n",
    "\"library books missing\",\"Library\",\"normal\"\n" >>)

\* a quoted query that holds a comma, and a line with too few parts
CorpusCommas == File(<<
    Header,
    "\"printer jam, printer offline\",\"Technical\",\"high\"\n",
    "no label here\n",
    "\"printer jam again\",\"Technical\",\"high\"\n" >>)

\* every line after the header has fewer than three parts
CorpusMalformed == File(<< Header, "no commas at all\n", "only,two\n" >>)

Corpora ==
    { MissingFile,
      UnreadableFile("PermissionError"),
      UnreadableFile("UnicodeDecodeError"),
      File(<<>>),
      File(<<Header>>),
      CorpusMalformed,
      CorpusInDomain,
      CorpusOtherLabels,
      CorpusCommas }

\* one corpus line, written the way cmsdata.csv writes a record
Sample(query, category, priority) ==
    "\"" \o query \o "\",\"" \o category \o "\",\"" \o priority \o "\"\n"

\* "printer" five times under Technical and high, every other word once
CorpusPrinter == File(<<
    Header,
    Sample("printer jammed", "Technical", "high"),
    Sample("printer offline", "Technical", "high"),
    Sample("printer toner", "Technical", "high"),
    Sample("printer driver", "Technical", "high"),
    Sample("printer queue", "Technical", "high") >>)

\* more repeated words under one label than either table keeps: 52 words met
\* twice, then 3 words met once, then 2 words met three times, all under
\* Technical and high; a second label with one repeated word
CorpusManyWords == File(<<
    Header,
    Sample("baz bez biz boz buz daz dez", "Technical", "high"),
    Sample("baz bez biz boz buz daz dez", "Technical", "high"),
    Sample("diz doz duz faz fez fiz foz", "Technical", "high"),
    Sample("diz doz duz faz fez fiz foz", "Technical", "high"),
    Sample("fuz gaz gez giz goz guz kaz", "Technical", "high"),
    Sample("fuz gaz gez giz goz guz kaz", "Technical", "high"),
    Sample("kez kiz koz kuz laz lez liz", "Technical", "high"),
    Sample("kez kiz koz kuz laz lez liz", "Technical", "high"),
    Sample("loz luz maz mez miz moz muz", "Technical", "high"),
    Sample("loz luz maz mez miz moz muz", "Technical", "high"),
    Sample("naz nez niz noz nuz paz pez", "Technical", "high"),
    Sample("naz nez niz noz nuz paz pez", "Technical", "high"),
    Sample("piz poz puz raz rez riz roz", "Technical", "high"),
    Sample("piz poz puz raz rez riz roz", "Technical", "high"),
    Sample("ruz saz sez", "Technical", "high"),
    Sample("ruz saz sez", "Technical", "high"),
    Sample("once only here", "Technical", "high"),
    Sample("toner cartridge", "Technical", "high"),
    Sample("toner cartridge", "Technical", "high"),
    Sample("toner cartridge", "Technical", "high"),
    Sample("lecture hall", "Academic", "low"),
    Sample("lecture room", "Academic", "low") >>)

\* the lines the generated corpus files are made of
CorpusLines ==
    { Header,
      Sample("printer jam", "Technical", "high"),
      Sample("printer offline", "Technical", "urgent"),
      Sample("lecture printer", "Academic", "high"),
      Sample("jam, printer", "Technical", "high"),
      "only,two\n" }

\* how many lines a generated corpus file has at most
MaxLines == 3

\* every file of at most MaxLines lines, each drawn from CorpusLines
GeneratedCorpora == { File(lines) : lines \in UNION { [1..n -> CorpusLines] : n \in 0..MaxLines } }

BuildCorpora == Corpora \cup GeneratedCorpora \cup { CorpusPrinter, CorpusManyWords }

Texts ==
    { "My hostel tap is leaking",
      "Water pipe burst",
      "Room light flickers",
      "Power cut since noon",
      "Food quality is bad",
      "Timetable clash",
      "Cannot login",
      "wifi down",
      "I need help urgently, my exam grade certificate is missing",
      "The elevator is broken and needs repair",
      "",
      "   ",
      "?!",
      "printer",
      "lecture printer",
      "urgent system crash",
      "Projector not working",
      "library books" }

\* the forms posted to /api/complaints/submit, with the role of the token
Submissions ==
    { [role |-> "student", title |-> "Water", description |-> "pipe burst"],
      [role |-> "faculty", title |-> " urgent ", description |-> "system crash"],
      [role |-> "student", title |-> "library", description |-> "books overdue"],
      [role |-> "admin", title |-> "Water", description |-> "pipe burst"],
      [role |-> "student", title |-> "wifi", description |-> "down again today"],
      [role |-> "student", title |-> "   ", description |-> "pipe burst"] }

\* the texts the submitted forms give the classifier
SubmitTexts == { "Water pipe burst", "urgent system crash", "library books overdue" }

\* the texts posted to /api/ml/classify while complaints are submitted
RouteTexts == { "Cannot login", "urgent system crash" }

\* the corpus files the service is constructed from while complaints are submitted
SubmitCorpora == { MissingFile, CorpusInDomain, CorpusOtherLabels }

\* texts for ties between labels, for rules met together with context keywords,
\* and for keywords in upper case, inside longer words and as phrases
CaseTexts ==
    { "soon normal",
      "projector printer",
      "class not working",
      "Projector not working",
      "WIFI DOWN",
      "wifi down",
      "Timetable clash",
      "URGENT broken chair asap",
      "Message not delivered",
      "Food quality is bad",
      "My hostel tap is leaking",
      "Water pipe burst",
      "Power cut since noon",
      "EMERGENCY power failure asap" }

\* the corpus files the service is constructed from for those texts
CaseCorpora == { MissingFile, CorpusInDomain, CorpusOtherLabels, CorpusPrinter }

\* texts that reach the scoring steps with repeated tokens, with tokens inside
\* and around pattern words, and with several trigger keywords of one boost;
\* one text that a rule answers
ScoreTexts ==
    { "printer printer",
      "printers print",
      "class lecture class",
      "hostel hostel",
      "not working not working",
      "system software computer system",
      "system not working",
      "urgent emergency asap urgent",
      "important needed missing",
      "wifi down" }

\* the corpus files the service is constructed from for those texts
ScoreCorpora == { MissingFile, CorpusInDomain }

\* texts with upper case, digits, punctuation, runs of whitespace, tabs and line
\* ends, pieces of one and two characters, and repeated pieces
WordTexts ==
    { "Wi-Fi DOWN in Lab-2",
      "a bc def GHI",
      "tab\tand\nline\r\nends",
      "lab2 lab2 LAB2",
      "e-mail: x@y.org!",
      "  many   spaces  ",
      "don't stop",
      "3rd 42 007",
      "A_B_C abc_def",
      "?!",
      "" }

\* every text a call is made on
AllTexts == Texts \cup SubmitTexts \cup RouteTexts \cup CaseTexts \cup ScoreTexts \cup WordTexts

\* how many request handlers run at once
NumHandlers == 2

-----------------------------------------------------------------------------
(* The state machine *)

NewService ==
    [models_loaded |-> FALSE, training_data |-> <<>>,
     category_patterns |-> <<>>, priority_patterns |-> <<>>]

\* what submit_complaint answers: the HTTP status, whether the complaint row was
\* committed and with which labels; with it, whether the classifier had raised
\* and which step of the request failed
Response(status, persisted, category, priority, raised, fault) ==
    [status |-> status, persisted |-> persisted, category |-> category,
     priority |-> priority, raised |-> raised, fault |-> fault]

NoResponse == Response(0, FALSE, "", "", FALSE, "none")

\* the frame of a call that has just been entered
NewFrame ==
    [caller |-> "classify_query", pc |-> "entry", query |-> "", words |-> <<>>,
     query_lower |-> "", category_scores |-> <<>>, predicted_category |-> "",
     priority_scores |-> <<>>, result |-> Pair("", ""), exc |-> "none",
     response |-> NoResponse]

\* the bag with frame g in the place of frame f
Replace(f, g) == (calls (-) SetToBag({f})) (+) SetToBag({g})

Frames == BagToSet(calls)

\* the database as the application finds it when it starts to serve: the tables
\* complaints, complaint_attachments and complaint_feedback empty, rows in
\* insertion order, and the last value the sequence of complaints.id gave out
NewDatabase ==
    [complaints |-> <<>>, complaint_attachments |-> <<>>, complaint_feedback |-> <<>>,
     complaints_id_seq |-> 0]

Init ==
    /\ csv_file \in Corpora
    /\ ctor = "load"
    /\ ml_service = NewService
    /\ constructed = NewService
    /\ calls = EmptyBag
    /\ db = NewDatabase
    /\ requests = EmptyBag

\* __init__ line 22
LoadCsv ==
    /\ ctor = "load"
    /\ ml_service' = load_csv_data(ml_service, csv_file)
    /\ ctor' = IF load_raises(csv_file) THEN "raised" ELSE "build"
    /\ UNCHANGED <<csv_file, constructed, calls, db, requests>>

\* __init__ line 23, after which ml_service is bound (line 248)
BuildPatterns ==
    /\ ctor = "build"
    /\ ml_service' = build_patterns(ml_service)
    /\ constructed' = ml_service'
    /\ ctor' = "done"
    /\ UNCHANGED <<csv_file, calls, db, requests>>

\* as entry_values, had the urgency keywords of apply_priority_context been
\* applied to a rule's answer as well
entry_values_with_urgency(query) ==
    LET query_lower == str_lower(query)
        rule == rule_based_classification(query_lower)
    IN [words |-> extract_words(query),
        query_lower |-> query_lower,
        rule |-> IF rule.matched
                    /\ \E k \in {"urgent", "emergency", "immediately", "asap"} :
                           str_in(k, query_lower)
                 THEN Match(rule.category, "urgent")
                 ELSE rule]

\* lines 120-124 on one text: its words, its lower-cased form, the rule's answer
entry_values(query) ==
    LET query_lower == str_lower(query) IN
    [words |-> extract_words(query),
     query_lower |-> query_lower,
     rule |-> rule_based_classification(query_lower)]

\* entry_values tabulated over the texts of the model (a function of the text alone)
EntryValues == [query \in AllTexts |-> entry_values(query)]

\* as importable, had the service been constructed in the background after
\* the application started serving
importable_while_constructing(c) == TRUE

\* the routes import the bound name ml_service (complaints.py line 8, server.py
\* line 10): the import returns, and the application is created, only once
\* line 248 has run __init__ to its end; c is the position in __init__
importable(c) == c = "done"

\* lines 120-126: word extraction and the rule shortcut
Begin(query) ==
    /\ importable(ctor)
    /\ BagCardinality(calls) < NumHandlers
    /\ LET e == EntryValues[query] IN
       calls' = calls (+) SetToBag({
           [NewFrame EXCEPT !.pc = IF e.rule.matched THEN "returned" ELSE "categories",
                            !.query = query,
                            !.words = e.words,
                            !.query_lower = e.query_lower,
                            !.result = Pair(e.rule.category, e.rule.priority)]})
    /\ UNCHANGED <<csv_file, ctor, ml_service, constructed, db, requests>>

\* the labels of maximal score
max_keys(scores) ==
    {scores[i].k : i \in {i \in 1..Len(scores) :
                            \A j \in 1..Len(scores) : scores[j].v <= scores[i].v}}

\* the frame of f after lines 128-145, with the category they choose
scored_categories(f, category_scores, predicted_category) ==
    [f EXCEPT !.pc = "priorities",
              !.category_scores = category_scores,
              !.predicted_category = predicted_category]

\* as ScoreCategories, had line 145 taken any label of maximal score (the labels
\* iterated as a set, whose order is not fixed)
ScoreCategoriesAnyMax(f) ==
    /\ f.pc = "categories"
    /\ \E scores \in {apply_context_rules(f.query_lower,
                          score_categories(ml_service.category_patterns, f.words))} :
       \E k \in max_keys(scores) :
            calls' = Replace(f, scored_categories(f, scores, k))
    /\ UNCHANGED <<csv_file, ctor, ml_service, constructed, db, requests>>

\* lines 128-145: reads self.category_patterns
ScoreCategories(f) ==
    /\ f.pc = "categories"
    /\ LET category_scores ==
               apply_context_rules(f.query_lower,
                   score_categories(ml_service.category_patterns, f.words))
       IN calls' = Replace(f, scored_categories(f, category_scores,
                                                predict_category(category_scores)))
    /\ UNCHANGED <<csv_file, ctor, ml_service, constructed, db, requests>>

\* as ScorePriorities, had the call kept what it classified as a new training sample
ScorePrioritiesLearning(f) ==
    /\ f.pc = "priorities"
    /\ LET priority_scores ==
               apply_priority_context(f.query_lower, f.predicted_category,
                   score_priorities(ml_service.priority_patterns, f.words))
           priority == predict_priority(priority_scores)
       IN /\ priority_scores # <<>>
          /\ calls' = Replace(f, [f EXCEPT !.pc = "returned",
                                           !.priority_scores = priority_scores,
                                           !.result = Pair(f.predicted_category, priority)])
          /\ ml_service' = [ml_service EXCEPT !.training_data =
                 Append(@, [query |-> f.query,
                            category |-> f.predicted_category,
                            priority |-> priority])]
    /\ UNCHANGED <<csv_file, ctor, constructed, db, requests>>

\* as ScorePriorities, had predicted_category been an attribute of the shared
\* service, which a concurrent call between its two scoring steps may have
\* overwritten before line 154 reads it
ScorePrioritiesSharedCategory(f) ==
    /\ f.pc = "priorities"
    /\ \E g \in Frames :
        /\ g.pc = "priorities"
        /\ LET priority_scores ==
                   apply_priority_context(f.query_lower, g.predicted_category,
                       score_priorities(ml_service.priority_patterns, f.words))
           IN /\ priority_scores # <<>>
              /\ calls' = Replace(f, [f EXCEPT
                     !.pc = "returned",
                     !.priority_scores = priority_scores,
                     !.result = Pair(g.predicted_category,
                                     predict_priority(priority_scores))])
    /\ UNCHANGED <<csv_file, ctor, ml_service, constructed, db, requests>>

\* lines 147-158: reads self.priority_patterns
ScorePriorities(f) ==
    /\ f.pc = "priorities"
    /\ LET priority_scores ==
               apply_priority_context(f.query_lower, f.predicted_category,
                   score_priorities(ml_service.priority_patterns, f.words))
       IN IF predict_priority_raises(priority_scores)
          THEN calls' = Replace(f, [f EXCEPT !.pc = "raised",
                                             !.exc = "ValueError",
                                             !.priority_scores = priority_scores])
          ELSE calls' = Replace(f, [f EXCEPT
                   !.pc = "returned",
                   !.priority_scores = priority_scores,
                   !.result = Pair(f.predicted_category,
                                   predict_priority(priority_scores))])
    /\ UNCHANGED <<csv_file, ctor, ml_service, constructed, db, requests>>

\* the caller takes the pair (or the exception) and the frame is gone
Return(f) ==
    /\ \/ f.caller = "classify_query" /\ f.pc \in {"returned", "raised"}
       \/ f.pc = "responded"
    /\ calls' = calls (-) SetToBag({f})
    /\ UNCHANGED <<csv_file, ctor, ml_service, constructed, db, requests>>

Next ==
    \/ LoadCsv
    \/ BuildPatterns
    \/ \E query \in Texts : Begin(query)
    \/ \E f \in Frames : ScoreCategories(f)
    \/ \E f \in Frames : ScorePriorities(f)
    \/ \E f \in Frames : Return(f)

Spec == Init /\ [][Next]_vars

-----------------------------------------------------------------------------
(* submit_complaint (routes/complaints.py), the second caller of the service *)

\* the exceptions raised from below the classifier's own code, whatever the text
\* and the tables
EnvironmentErrors == {"MemoryError"}

\* the exceptions a call of classify_user_query can end with: ValueError is the
\* one its own code can raise (line 156)
ClassifierErrors == {"ValueError"} \cup EnvironmentErrors

\* what can go wrong in a request after the classification: the flush, an
\* upload, the commit, or a step after the commit
Faults == {"none", "flush", "upload_rejected", "upload_error", "commit", "after_commit"}

\* lines 68-89 on the stripped fields: the status of the refusal, 0 when there is none
submit_validation(role, title, description) ==
    IF role \notin {"student", "faculty"} THEN 403
    ELSE IF title = "" \/ description = "" THEN 400
    ELSE IF Len(title) < 5 \/ Len(description) < 10 THEN 400
    ELSE 0

\* as caught_by_submit, had line 94 read `except ValueError`
caught_by_submit_value_error(exc) == exc = "ValueError"

\* `except Exception` (line 94) catches every one of them
caught_by_submit(exc) == exc \in ClassifierErrors

\* lines 92-98: the pair the handler goes on with, unless the exception leaves
\* the inner try
submit_classification(f) ==
    IF f.pc = "returned" THEN Returned(f.result.category, f.result.priority)
    ELSE IF caught_by_submit(f.exc) THEN Returned("Technical", "medium")
    ELSE Raised

\* lines 100-232 for the outcome c of lines 92-98
submit_response(c, raised, fault) ==
    IF c.raised
    THEN Response(500, FALSE, "", "", raised, fault)
    ELSE IF c.category \notin ComplaintCategory \/ c.priority \notin ComplaintPriority
    THEN Response(500, FALSE, "", "", raised, fault)
    ELSE IF fault = "flush" THEN Response(500, FALSE, "", "", raised, fault)
    ELSE IF fault = "upload_rejected" THEN Response(400, FALSE, "", "", raised, fault)
    ELSE IF fault = "upload_error" THEN Response(500, FALSE, "", "", raised, fault)
    ELSE IF fault = "commit" THEN Response(500, FALSE, "", "", raised, fault)
    ELSE IF fault = "after_commit"
    THEN Response(500, TRUE, c.category, c.priority, raised, fault)
    ELSE Response(201, TRUE, c.category, c.priority, raised, fault)

\* lines 54-93: validation, then the call of the classifier, which ends with
\* exception exc unless exc is "none"
Submit(form, exc) ==
    /\ importable(ctor)
    /\ BagCardinality(calls) < NumHandlers
    /\ \E title \in {str_strip(form.title, WhiteSpace)} :
       \E description \in {str_strip(form.description, WhiteSpace)} :
       \E status \in {submit_validation(form.role, title, description)} :
           IF status # 0
           THEN calls' = calls (+) SetToBag({
                    [NewFrame EXCEPT !.caller = "submit_complaint",
                                     !.pc = "responded",
                                     !.response = Response(status, FALSE, "", "", FALSE, "none")]})
           ELSE \E query \in {title \o " " \o description} :
                \E e \in {EntryValues[query]} :
                    calls' = calls (+) SetToBag({
                        [NewFrame EXCEPT
                            !.caller = "submit_complaint",
                            !.pc = IF exc # "none" THEN "raised"
                                   ELSE IF e.rule.matched THEN "returned" ELSE "categories",
                            !.exc = exc,
                            !.query = query,
                            !.words = e.words,
                            !.query_lower = e.query_lower,
                            !.result = IF exc # "none" THEN Pair("", "")
                                       ELSE Pair(e.rule.category, e.rule.priority)]})
    /\ UNCHANGED <<csv_file, ctor, ml_service, constructed, db, requests>>

\* lines 94-232: the rest of the request, with the step that fails in it, if any
FinishSubmit(f, fault) ==
    /\ f.caller = "submit_complaint"
    /\ f.pc \in {"returned", "raised"}
    /\ calls' = Replace(f, [f EXCEPT
           !.pc = "responded",
           !.response = submit_response(submit_classification(f), f.pc = "raised", fault)])
    /\ UNCHANGED <<csv_file, ctor, ml_service, constructed, db, requests>>

InitSubmit ==
    /\ csv_file \in SubmitCorpora
    /\ ctor = "load"
    /\ ml_service = NewService
    /\ constructed = NewService
    /\ calls = EmptyBag
    /\ db = NewDatabase
    /\ requests = EmptyBag

NextSubmit ==
    \/ LoadCsv
    \/ BuildPatterns
    \/ \E query \in RouteTexts : Begin(query)
    \/ \E form \in Submissions : \E exc \in {"none"} \cup EnvironmentErrors : Submit(form, exc)
    \/ \E f \in Frames : ScoreCategories(f)
    \/ \E f \in Frames : ScorePriorities(f)
    \/ \E f \in Frames : \E fault \in Faults : FinishSubmit(f, fault)
    \/ \E f \in Frames : Return(f)

SpecSubmit == InitSubmit /\ [][NextSubmit]_vars

-----------------------------------------------------------------------------
(* The service and /api/ml/classify on the texts of CaseTexts *)

InitCases ==
    /\ csv_file \in CaseCorpora
    /\ ctor = "load"
    /\ ml_service = NewService
    /\ constructed = NewService
    /\ calls = EmptyBag
    /\ db = NewDatabase
    /\ requests = EmptyBag

NextCases ==
    \/ LoadCsv
    \/ BuildPatterns
    \/ \E query \in CaseTexts : Begin(query)
    \/ \E f \in Frames : ScoreCategories(f)
    \/ \E f \in Frames : ScorePriorities(f)
    \/ \E f \in Frames : Return(f)

SpecCases == InitCases /\ [][NextCases]_vars

-----------------------------------------------------------------------------
(* The service and /api/ml/classify on the texts of ScoreTexts *)

InitScores ==
    /\ csv_file \in ScoreCorpora
    /\ ctor = "load"
    /\ ml_service = NewService
    /\ constructed = NewService
    /\ calls = EmptyBag
    /\ db = NewDatabase
    /\ requests = EmptyBag

NextScores ==
    \/ LoadCsv
    \/ BuildPatterns
    \/ \E query \in ScoreTexts : Begin(query)
    \/ \E f \in Frames : ScoreCategories(f)
    \/ \E f \in Frames : ScorePriorities(f)
    \/ \E f \in Frames : Return(f)

SpecScores == InitScores /\ [][NextScores]_vars

-----------------------------------------------------------------------------
(* The service without a corpus file and /api/ml/classify on the texts of WordTexts *)

InitWords ==
    /\ csv_file = MissingFile
    /\ ctor = "load"
    /\ ml_service = NewService
    /\ constructed = NewService
    /\ calls = EmptyBag
    /\ db = NewDatabase
    /\ requests = EmptyBag

NextWords ==
    \/ LoadCsv
    \/ BuildPatterns
    \/ \E query \in WordTexts : Begin(query)
    \/ \E f \in Frames : ScoreCategories(f)
    \/ \E f \in Frames : ScorePriorities(f)
    \/ \E f \in Frames : Return(f)

SpecWords == InitWords /\ [][NextWords]_vars

-----------------------------------------------------------------------------
(* The routes of routes/complaints.py that write to the database *)

\* how many values the sequence of complaints.id gives out
MaxComplaints == 2

\* how many requests are recorded
MaxRequests == 3

\* ComplaintStatus (models/complaint.py lines 6-10)
ComplaintStatus == {"pending", "in_progress", "resolved", "closed"}

\* a column that holds NULL, and the value of datetime.utcnow() at any time
Null == "NULL"

UtcNow == "utcnow"

\* the payload of a token: auth.py lines 132-137 for a user, admin.py lines
\* 134-139 for an admin; 0 stands for a key the payload does not hold (the ids
\* of both tables start at 1)
UserToken(id, role) == [user_id |-> id, admin_id |-> 0, role |-> role]

AdminToken(id) == [user_id |-> 0, admin_id |-> id, role |-> "admin"]

\* the principals: users 1 (a student) and 2 (faculty) of table users and admin 1
\* of table admins, each table with its own sequence of ids
Tokens == {UserToken(1, "student"), UserToken(2, "faculty"), AdminToken(1)}

\* token_required, line 35: data.get('user_id') or data.get('admin_id')
current_user_id(data) == IF data.user_id # 0 THEN data.user_id ELSE data.admin_id

\* line 36
current_user_role(data) == data.role

\* a file of request.files with what cloudinary_service.upload_file does with it:
\* it returns success, returns an error, or an exception leaves lines 129-144
Attachment(filename, upload) == [filename |-> filename, upload |-> upload]

\* the lists of attachments posted; a file without a name is skipped (line 126)
FileLists ==
    { <<>>,
      <<Attachment("a.png", "ok")>>,
      <<Attachment("a.png", "ok"), Attachment("b.pdf", "ok")>>,
      <<Attachment("a.png", "ok"), Attachment("b.exe", "rejected")>>,
      <<Attachment("a.png", "ok"), Attachment("b.pdf", "raised")>>,
      <<Attachment("a.exe", "rejected"), Attachment("b.pdf", "ok")>>,
      <<Attachment("", "ok"), Attachment("b.pdf", "ok")>> }

\* what the database does to a submission: nothing, or the flush (line 111), the
\* commit (line 162) or a step after the commit raises
DatabaseFaults == {"none", "flush", "commit", "after_commit"}

\* a submission: the token, the form, the files and the fault it meets
Submission(data, form, files, fault) ==
    [data |-> data, form |-> form, files |-> files, fault |-> fault]

\* the submissions: a student's with every list of files, and with every fault
\* on one list; a faculty member's; an admin's; one with a title too short
PostedComplaints ==
    {Submission(UserToken(1, "student"), [title |-> "Water", description |-> "pipe burst"],
                files, "none") : files \in FileLists}
    \cup {Submission(UserToken(1, "student"), [title |-> "Water", description |-> "pipe burst"],
                     <<Attachment("a.png", "ok")>>, fault) : fault \in DatabaseFaults}
    \cup {Submission(data, [title |-> "Water", description |-> "pipe burst"], <<>>, "none") :
             data \in {UserToken(2, "faculty"), AdminToken(1)}}
    \cup {Submission(UserToken(1, "student"),
                     [title |-> "wifi", description |-> "down again today"], <<>>, "none")}

\* the values posted as status and as rating
PostedStatus == ComplaintStatus \cup {"", "reopened"}

PostedRating == {4, 6}

\* the row Complaint.__init__ and the column defaults give (complaint.py 24-55)
ComplaintRow(id, user_id, category, priority) ==
    [id |-> id, user_id |-> user_id, category |-> category, priority |-> priority,
     status |-> "pending", resolved_at |-> Null, admin_id |-> 0]

\* Complaint.query.get: the rows with that id, at most one
complaint_rows(d, complaint_id) ==
    {d.complaints[i] : i \in {i \in 1..Len(d.complaints) : d.complaints[i].id = complaint_id}}

\* complaint.feedback: the feedback rows of a complaint
feedback_rows(d, complaint_id) ==
    {i \in 1..Len(d.complaint_feedback) : d.complaint_feedback[i].complaint_id = complaint_id}

\* complaint.attachments
attachment_rows(d, complaint_id) ==
    {i \in 1..Len(d.complaint_attachments) :
        d.complaint_attachments[i].complaint_id = complaint_id}

\* the record of a request: who sent it, the complaint it is about (for a
\* submission the id the flush gave, 0 when there was none), what it posted,
\* where it stands and the status it was answered with
Request(route, data, complaint_id, rating, files, pc, status) ==
    [route |-> route, data |-> data, complaint_id |-> complaint_id, rating |-> rating,
     files |-> files, pc |-> pc, status |-> status]

Requests == BagToSet(requests)

\* the handler's answer: the committed rows it leaves, its status, the id flushed
Outcome(d, status, complaint_id) == [db |-> d, status |-> status, complaint_id |-> complaint_id]

\* lines 92-98 on the text of a form: the rules' answer as tabulated, else the
\* scoring steps on the tables of the service; (Technical, medium) when it raises
form_classification(self, query) ==
    IF EntryValues[query].rule.matched
    THEN Pair(EntryValues[query].rule.category, EntryValues[query].rule.priority)
    ELSE IF classify_user_query(self, query).raised THEN Pair("Technical", "medium")
    ELSE Pair(classify_user_query(self, query).category,
              classify_user_query(self, query).priority)

\* as upload_files, had lines 145-158 gone on to the next file after a failed
\* upload
RECURSIVE upload_files_skipping_failed(_, _, _)
upload_files_skipping_failed(files, complaint_id, added) ==
    IF files = <<>> THEN [status |-> 0, added |-> added]
    ELSE IF Head(files).filename = "" \/ Head(files).upload # "ok"
    THEN upload_files_skipping_failed(Tail(files), complaint_id, added)
    ELSE upload_files_skipping_failed(Tail(files), complaint_id,
             Append(added, [complaint_id |-> complaint_id,
                            original_filename |-> Head(files).filename]))

\* lines 121-158: the files in order; the attachments added to the session, and
\* the status of the answer after the rollback of a failed upload, 0 when none
\* failed
RECURSIVE upload_files(_, _, _)
upload_files(files, complaint_id, added) ==
    IF files = <<>> THEN [status |-> 0, added |-> added]
    ELSE IF Head(files).filename = ""
    THEN upload_files(Tail(files), complaint_id, added)
    ELSE IF Head(files).upload = "rejected" THEN [status |-> 400, added |-> <<>>]
    ELSE IF Head(files).upload = "raised" THEN [status |-> 500, added |-> <<>>]
    ELSE upload_files(Tail(files), complaint_id,
             Append(added, [complaint_id |-> complaint_id,
                            original_filename |-> Head(files).filename]))

\* lines 100-232 for a validated form classified as c: the flush gives the row
\* its id, which a rollback does not give back
submit_rows(d, user_id, c, files, fault) ==
    IF c.category \notin ComplaintCategory \/ c.priority \notin ComplaintPriority
    THEN Outcome(d, 500, 0)
    ELSE IF fault = "flush" THEN Outcome(d, 500, 0)
    ELSE LET id == d.complaints_id_seq + 1
             flushed == [d EXCEPT !.complaints_id_seq = id]
             uploads == upload_files(files, id, <<>>)
         IN IF uploads.status # 0 THEN Outcome(flushed, uploads.status, id)
            ELSE IF fault = "commit" THEN Outcome(flushed, 500, id)
            ELSE Outcome([flushed EXCEPT
                             !.complaints = Append(@, ComplaintRow(id, user_id,
                                                                    c.category, c.priority)),
                             !.complaint_attachments = @ \o uploads.added],
                         IF fault = "after_commit" THEN 500 ELSE 201, id)

\* POST /api/complaints/submit, lines 54-232
submit_complaint(data, form, files, fault) ==
    /\ importable(ctor)
    /\ BagCardinality(requests) < MaxRequests
    /\ db.complaints_id_seq < MaxComplaints
    /\ \E title \in {str_strip(form.title, WhiteSpace)} :
       \E description \in {str_strip(form.description, WhiteSpace)} :
       \E refused \in {submit_validation(current_user_role(data), title, description)} :
       \E o \in {IF refused # 0 THEN Outcome(db, refused, 0)
                 ELSE submit_rows(db, current_user_id(data),
                          form_classification(ml_service, title \o " " \o description),
                          files, fault)} :
           /\ db' = o.db
           /\ requests' = requests (+) SetToBag({
                  Request("submit_complaint", data, o.complaint_id, 0, files,
                          "responded", o.status)})
    /\ UNCHANGED <<csv_file, ctor, ml_service, constructed, calls>>

\* lines 439-446 on the row of the complaint
updated_row(row, admin_id, status) ==
    [row EXCEPT !.status = status,
                !.admin_id = admin_id,
                !.resolved_at = IF status \in {"resolved", "closed"} THEN UtcNow ELSE @]

\* lines 412-448: the rows after the commit; unchanged when the request is
\* refused (403, 400) or the complaint is not found
update_rows(d, data, complaint_id, new_status) ==
    IF current_user_role(data) # "admin" THEN d
    ELSE IF complaint_rows(d, complaint_id) = {} THEN d
    ELSE IF new_status \notin ComplaintStatus THEN d
    ELSE [d EXCEPT !.complaints =
             [i \in 1..Len(@) |->
                 IF @[i].id = complaint_id
                 THEN updated_row(@[i], current_user_id(data), new_status)
                 ELSE @[i]]]

\* PUT /api/complaints/<complaint_id>/update-status, lines 406-497
update_complaint_status(data, complaint_id, new_status) ==
    /\ importable(ctor)
    /\ db' = update_rows(db, data, complaint_id, new_status)
    /\ UNCHANGED <<csv_file, ctor, ml_service, constructed, calls, requests>>

\* lines 612-645: the status of the refusal, 0 when there is none; a complaint
\* that is not found raises NotFound, which line 671 catches
feedback_refusal(d, data, complaint_id, rating) ==
    IF complaint_rows(d, complaint_id) = {} THEN 500
    ELSE IF \E row \in complaint_rows(d, complaint_id) : row.user_id # current_user_id(data)
    THEN 403
    ELSE IF \E row \in complaint_rows(d, complaint_id) : row.status \notin {"resolved", "closed"}
    THEN 400
    ELSE IF feedback_rows(d, complaint_id) # {} THEN 400
    ELSE IF rating < 1 \/ rating > 5 THEN 400
    ELSE 0

\* POST /api/complaints/<complaint_id>/feedback, lines 609-651: up to the
\* feedback object, built on what the request's own session read
submit_feedback(data, complaint_id, rating) ==
    /\ importable(ctor)
    /\ BagCardinality(requests) < MaxRequests
    /\ \E refused \in {feedback_refusal(db, data, complaint_id, rating)} :
           requests' = requests (+) SetToBag({
               Request("submit_feedback", data, complaint_id, rating, <<>>,
                       IF refused = 0 THEN "commit" ELSE "responded", refused)})
    /\ UNCHANGED <<csv_file, ctor, ml_service, constructed, calls, db>>

\* as insert_feedback, had complaint_id not been declared unique (complaint.py
\* line 128)
insert_feedback_not_unique(d, r) ==
    Outcome([d EXCEPT !.complaint_feedback =
                Append(@, [complaint_id |-> r.complaint_id, rating |-> r.rating])],
            201, r.complaint_id)

\* lines 653-654 under the unique constraint on complaint_feedback.complaint_id
\* (complaint.py line 128): the commit inserts the row, or raises and line 672
\* rolls back
insert_feedback(d, r) ==
    IF feedback_rows(d, r.complaint_id) # {}
    THEN Outcome(d, 500, r.complaint_id)
    ELSE Outcome([d EXCEPT !.complaint_feedback =
                     Append(@, [complaint_id |-> r.complaint_id, rating |-> r.rating])],
                 201, r.complaint_id)

\* lines 653-677: add, commit and the answer
commit_feedback(r) ==
    /\ r.route = "submit_feedback"
    /\ r.pc = "commit"
    /\ \E o \in {insert_feedback(db, r)} :
           /\ db' = o.db
           /\ requests' = (requests (-) SetToBag({r}))
                          (+) SetToBag({[r EXCEPT !.pc = "responded", !.status = o.status]})
    /\ UNCHANGED <<csv_file, ctor, ml_service, constructed, calls>>

InitRoutes ==
    /\ csv_file = MissingFile
    /\ ctor = "load"
    /\ ml_service = NewService
    /\ constructed = NewService
    /\ calls = EmptyBag
    /\ db = NewDatabase
    /\ requests = EmptyBag

NextRoutes ==
    \/ LoadCsv
    \/ BuildPatterns
    \/ \E s \in PostedComplaints : submit_complaint(s.data, s.form, s.files, s.fault)
    \/ \E data \in Tokens : \E complaint_id \in 1..MaxComplaints :
       \E new_status \in PostedStatus :
           update_complaint_status(data, complaint_id, new_status)
    \/ \E data \in Tokens : \E complaint_id \in 1..MaxComplaints :
       \E rating \in PostedRating :
           submit_feedback(data, complaint_id, rating)
    \/ \E r \in Requests : commit_feedback(r)

SpecRoutes == InitRoutes /\ [][NextRoutes]_vars

-----------------------------------------------------------------------------
(* Construction alone, over more corpus files: __init__ lines 22-23 *)

InitBuild ==
    /\ csv_file \in BuildCorpora
    /\ ctor = "load"
    /\ ml_service = NewService
    /\ constructed = NewService
    /\ calls = EmptyBag
    /\ db = NewDatabase
    /\ requests = EmptyBag

NextBuild ==
    \/ LoadCsv
    \/ BuildPatterns

SpecBuild == InitBuild /\ [][NextBuild]_vars

-----------------------------------------------------------------------------
(* Properties *)

HasReturned(f) == f.pc = "returned"

\* the call went through scoring (no rule shortcut)
Scored(f) == HasReturned(f) /\ ~EntryValues[f.query].rule.matched

AllZero(scores) == \A i \in 1..Len(scores) : scores[i].v = 0

\* C1: every pair a call returns has its category among Technical, Academic,
\* Hostel/Mess, Maintenance and its priority among low, medium, high, urgent,
\* under every pair of tables construction can produce.
C1_LabelsInDomain ==
    \A f \in Frames :
        HasReturned(f) =>
            /\ f.result.category \in ComplaintCategory
            /\ f.result.priority \in ComplaintPriority

\* C2: no call of classify_user_query ends by raising, whatever the text and
\* whatever tables construction produced.
C2_NeverRaises == \A f \in Frames : f.pc # "raised"

\* a call on a text with no extractable word returned through scoring, on tables
\* built from a corpus
C2_Witness ==
    \E f \in Frames :
        /\ Scored(f)
        /\ f.query = "?!"
        /\ f.words = <<>>
        /\ ml_service.training_data # <<>>

\* The rule table of Step 1 as the specification lists it
Step1Rules == <<
    [keys |-> <<"water", "tap", "leak", "plumbing", "pipe", "drainage">>,
     also |-> <<"hostel", "room", "mess">>,
     with |-> Pair("Hostel/Mess", "urgent"), without |-> Pair("Maintenance", "urgent")],
    [keys |-> <<"electricity", "power", "light", "bulb", "electrical">>,
     also |-> <<"hostel", "room">>,
     with |-> Pair("Hostel/Mess", "urgent"), without |-> Pair("Maintenance", "high")],
    [keys |-> <<"food", "meal", "mess", "dining", "kitchen", "quality">>,
     also |-> <<>>,
     with |-> Pair("Hostel/Mess", "high"), without |-> Pair("Hostel/Mess", "high")],
    [keys |-> <<"room", "furniture", "bed", "chair", "table">>,
     also |-> <<>>,
     with |-> Pair("Hostel/Mess", "medium"), without |-> Pair("Hostel/Mess", "medium")],
    [keys |-> <<"login", "portal", "password", "access">>,
     also |-> <<>>,
     with |-> Pair("Technical", "urgent"), without |-> Pair("Technical", "urgent")],
    [keys |-> <<"wifi", "internet", "network", "connection">>,
     also |-> <<>>,
     with |-> Pair("Technical", "urgent"), without |-> Pair("Technical", "urgent")],
    [keys |-> <<"grade", "marks", "exam", "certificate", "attendance">>,
     also |-> <<>>,
     with |-> Pair("Academic", "high"), without |-> Pair("Academic", "high")],
    [keys |-> <<"broken", "repair", "fix", "maintenance", "elevator", "lift">>,
     also |-> <<>>,
     with |-> Pair("Maintenance", "urgent"), without |-> Pair("Maintenance", "urgent")] >>

\* the rules that match a lower-cased text
MatchingRules(query_lower) ==
    {i \in 1..Len(Step1Rules) : any_in(Step1Rules[i].keys, query_lower)}

LowestRule(query_lower) ==
    CHOOSE i \in MatchingRules(query_lower) :
        \A j \in MatchingRules(query_lower) : i <= j

\* per text: the matching rules and the pair of the lowest-numbered one
Step1Expected ==
    [query \in AllTexts |->
        LET query_lower == str_lower(query)
            rules == MatchingRules(query_lower)
        IN [rules |-> rules,
            pair |-> IF rules = {} THEN Pair("", "")
                     ELSE LET r == Step1Rules[LowestRule(query_lower)] IN
                          IF any_in(r.also, query_lower) THEN r.with ELSE r.without]]

\* C3: when at least one Step-1 rule matches the lower-cased text, the call
\* returns the pair of the lowest-numbered matching rule, whatever later rules
\* match too; the two documented examples give (Hostel/Mess, urgent) and
\* (Maintenance, urgent).
C3_FirstMatchingRule ==
    \A f \in Frames :
        HasReturned(f) =>
            /\ Step1Expected[f.query].rules # {}
                   => f.result = Step1Expected[f.query].pair
            /\ f.query = "My hostel tap is leaking"
                   => f.result = Pair("Hostel/Mess", "urgent")
            /\ f.query = "The elevator is broken and needs repair"
                   => f.result = Pair("Maintenance", "urgent")

\* a text that rules 2 and 4 both match got rule 2's pair
C3_Witness ==
    \E f \in Frames :
        /\ HasReturned(f)
        /\ f.query = "Room light flickers"
        /\ Step1Expected[f.query].rules = {2, 4}
        /\ f.result = Pair("Hostel/Mess", "urgent")

CertificateText == "I need help urgently, my exam grade certificate is missing"

\* C4 as stated: the certificate text is classified (Academic, urgent).
C4_AcademicUrgent ==
    \A f \in Frames :
        HasReturned(f) /\ f.query = CertificateText
            => f.result = Pair("Academic", "urgent")

\* C4 as amended: the certificate text is classified (Academic, high), the pair
\* of rule 7, under every pair of tables.
C4_AcademicHigh ==
    \A f \in Frames :
        HasReturned(f) /\ f.query = CertificateText
            => f.result = Pair("Academic", "high")

\* the certificate text was classified on tables built from a corpus
C4_Witness ==
    \E f \in Frames :
        /\ HasReturned(f)
        /\ f.query = CertificateText
        /\ csv_file = CorpusInDomain

\* C5: a call that matches no rule and scores zero for every category and
\* every priority returns (Technical, medium), whichever tables are in use; in
\* particular the empty string does.
C5_DefaultPair ==
    \A f \in Frames :
        /\ Scored(f)
        /\ AllZero(f.category_scores)
        /\ AllZero(f.priority_scores)
        => f.result = Pair("Technical", "medium")

\* C6: once the service is constructed, every key of the category table is a
\* category label and every key of the priority table is a priority label.
C6_KeysInEnumerations ==
    ctor = "done" =>
        /\ \A i \in 1..Len(ml_service.category_patterns) :
               ml_service.category_patterns[i].k \in ComplaintCategory
        /\ \A i \in 1..Len(ml_service.priority_patterns) :
               ml_service.priority_patterns[i].k \in ComplaintPriority

\* C7: any two calls of one run on the same text return the same pair: a
\* pair not yet taken by its caller equals the pair any other call gets for
\* that text, however many calls were made in between.
C7_SameTextSamePair ==
    \A f, g \in Frames :
        HasReturned(f) /\ HasReturned(g) /\ f.query = g.query
            => f.result = g.result

\* two calls on the same text have both returned through scoring, with all
\* categories tied
C7_Witness ==
    \E f \in Frames :
        /\ Scored(f)
        /\ AllZero(f.category_scores)
        /\ CopiesIn(f, calls) = 2

\* C8: after construction, no step of any call changes category_patterns,
\* priority_patterns, training_data or models_loaded: the service equals what
\* it was when construction finished.
C8_ServiceUnchanged == ctor = "done" => ml_service = constructed

\* a call went through both scoring steps, context boosts applied, on a
\* service built from a corpus
C8_Witness ==
    \E f \in Frames :
        /\ Scored(f)
        /\ f.query = "urgent system crash"
        /\ ml_service.training_data # <<>>
        /\ ml_service = constructed

\* what each text gets from a call run alone on a service constructed from a file
RunAlone ==
    [file \in Corpora |->
        [query \in Texts |->
            classify_user_query(build_patterns(load_csv_data(NewService, file)), query)]]

\* C9: under every interleaving of the handlers' steps, each call returns the
\* pair the same text gets from a call run alone.
C9_AsRunAlone ==
    \A f \in Frames :
        /\ HasReturned(f) =>
               RunAlone[csv_file][f.query] = Returned(f.result.category, f.result.priority)
        /\ f.pc = "raised" => RunAlone[csv_file][f.query] = Raised

\* one call has returned through scoring while another, on another text, is
\* between its two reads of the shared tables
C9_Witness ==
    \E f, g \in Frames :
        /\ Scored(f)
        /\ g.pc = "priorities"
        /\ f.query # g.query
        /\ f.predicted_category # g.predicted_category

\* The default tables as the specification documents them
DocumentedCategoryDefaults == <<
    [k |-> "Technical",
     v |-> <<"login", "password", "portal", "wifi", "internet", "network",
             "computer", "laptop", "software", "email", "lms", "system">>],
    [k |-> "Academic",
     v |-> <<"grade", "marks", "exam", "attendance", "lecture", "class",
             "assignment", "certificate", "transfer", "timetable", "professor">>],
    [k |-> "Hostel/Mess",
     v |-> <<"hostel", "room", "mess", "food", "meal", "accommodation",
             "furniture", "allotment", "quality", "dining">>],
    [k |-> "Maintenance",
     v |-> <<"maintenance", "repair", "broken", "electricity", "water", "tap",
             "elevator", "cleaning", "lighting", "conditioning">>] >>

DocumentedPriorityDefaults == <<
    [k |-> "urgent",
     v |-> <<"urgent", "emergency", "immediately", "broken", "not", "working",
             "critical">>],
    [k |-> "high",
     v |-> <<"important", "soon", "needed", "missing", "exam", "grade",
             "deteriorated">>],
    [k |-> "medium",
     v |-> <<"moderate", "normal", "permission", "competition", "week">>],
    [k |-> "low",
     v |-> <<"later", "minor", "simple", "routine", "cleaning", "dim">>] >>

\* C10: construction never ends by raising, and when the corpus file is
\* missing, unreadable or yields no training sample, the constructed service
\* holds exactly the documented default tables.
C10_DefaultsWithoutCorpus ==
    /\ ctor # "raised"
    /\ ctor = "done"
       /\ (~csv_file.exists \/ csv_file.error # "none" \/ ml_service.training_data = <<>>)
       => /\ ml_service.category_patterns = DocumentedCategoryDefaults
          /\ ml_service.priority_patterns = DocumentedPriorityDefaults

\* construction finished on a file whose bytes do not decode
C10_Witness ==
    /\ ctor = "done"
    /\ csv_file = UnreadableFile("UnicodeDecodeError")
    /\ ml_service.category_patterns = DocumentedCategoryDefaults

-----------------------------------------------------------------------------
(* Properties of construction, checked under SpecBuild *)

\* construction has finished
Constructed == ctor = "done"

\* load_csv_data read the file to its end
Loaded == ctor \in {"build", "done"} /\ csv_file.exists /\ csv_file.error = "none"

\* C11: whatever the corpus, each list of the built category table has at most
\* 50 entries and each list of the built priority table has at most 30.
C11_TableCaps ==
    Constructed =>
        /\ \A i \in 1..Len(ml_service.category_patterns) :
               Len(ml_service.category_patterns[i].v) <= 50
        /\ \A i \in 1..Len(ml_service.priority_patterns) :
               Len(ml_service.priority_patterns[i].v) <= 30

\* tables were built from a corpus with 54 repeated words under one label, and
\* both cuts took effect
C11_Witness ==
    /\ Constructed
    /\ csv_file = CorpusManyWords
    /\ \E i \in 1..Len(ml_service.category_patterns) :
           Len(ml_service.category_patterns[i].v) = 50
    /\ \E i \in 1..Len(ml_service.priority_patterns) :
           Len(ml_service.priority_patterns[i].v) = 30

\* the words of the training samples that carry a label, in corpus order
RECURSIVE label_stream(_, _, _)
label_stream(items, field, label) ==
    IF items = <<>> THEN <<>>
    ELSE (IF Head(items)[field] = label THEN extract_words(Head(items).query) ELSE <<>>)
         \o label_stream(Tail(items), field, label)

\* how often each word of a stream occurs in it
Occurrences(stream) ==
    [w \in {stream[i] : i \in 1..Len(stream)} |->
        Cardinality({i \in 1..Len(stream) : stream[i] = w})]

\* where each word of a stream occurs first
FirstSeen(stream) ==
    [w \in {stream[i] : i \in 1..Len(stream)} |->
        CHOOSE i \in 1..Len(stream) :
            stream[i] = w /\ \A j \in 1..(i - 1) : stream[j] # w]

\* the words that come before w by count: those counted more often, and those
\* counted as often and met earlier
Ahead(w, count, first) ==
    {v \in DOMAIN count :
        count[v] > count[w] \/ (count[v] = count[w] /\ first[v] < first[w])}

\* a list holds exactly the words of the stream counted more than once and
\* among its top n by count
ListAsCounted(list, stream, n) ==
    \E count \in {Occurrences(stream)} :
    \E first \in {FirstSeen(stream)} :
        /\ \A k \in 1..Len(list) : list[k] \in DOMAIN count
        /\ \A w \in DOMAIN count :
               list_has(list, w) <=> (count[w] > 1 /\ Cardinality(Ahead(w, count, first)) < n)
        /\ \A w \in DOMAIN count : count[w] = 1 => ~list_has(list, w)

\* every list of a table is as counted from the training samples
TableAsCounted(table, field, n) ==
    \A i \in 1..Len(table) :
        \E stream \in {label_stream(ml_service.training_data, field, table[i].k)} :
            ListAsCounted(table[i].v, stream, n)

\* [e for e in items if e.count > 1]
repeated_entries(items) == SelectSeq(items, counted_more_than_once)

\* the table with the count > 1 filter applied before the cut
filter_then_cut(words_by_label, n) ==
    [i \in 1..Len(words_by_label) |->
        [k |-> words_by_label[i].k,
         v |-> entry_words(take(repeated_entries(sorted_by_count(words_by_label[i].v)), n))]]

\* C12: in tables built from a non-empty corpus, a word is in a label's list
\* exactly when it is counted more than once under that label and is among the
\* label's top 50 (category) or top 30 (priority) words by count; a word counted
\* once is in no list; filtering before the cut gives the same tables; and the
\* corpus with "printer" five times under Technical and high gives the lists
\* [printer].
C12_RepeatedTopWords ==
    Constructed /\ ml_service.training_data # <<>> =>
        /\ TableAsCounted(ml_service.category_patterns, "category", 50)
        /\ TableAsCounted(ml_service.priority_patterns, "priority", 30)
        /\ ml_service.category_patterns =
               filter_then_cut(label_words(<<>>, ml_service.training_data, "category"), 50)
        /\ ml_service.priority_patterns =
               filter_then_cut(label_words(<<>>, ml_service.training_data, "priority"), 30)
        /\ csv_file = CorpusPrinter =>
               /\ ml_service.category_patterns = <<[k |-> "Technical", v |-> <<"printer">>]>>
               /\ ml_service.priority_patterns = <<[k |-> "high", v |-> <<"printer">>]>>

\* tables were built from the corpus where "printer" is the one repeated word
C12_Witness ==
    /\ Constructed
    /\ csv_file = CorpusPrinter
    /\ Len(ml_service.training_data) = 5
    /\ dict_get(ml_service.category_patterns, "Technical", <<>>) = <<"printer">>

\* the commas of a line
count_commas(line) == Cardinality({i \in 1..Len(line) : SubSeq(line, i, i) = ","})

\* C13: the first line of the file is skipped, every later line with fewer than
\* three comma-separated parts is skipped, and every later line with at least
\* three is loaded: there are as many training samples as such lines.
C13_MalformedSkipped ==
    Loaded =>
        Len(ml_service.training_data) =
            Cardinality({i \in 2..Len(csv_file.lines) : count_commas(csv_file.lines[i]) >= 2})

\* a file with a line of too few parts between two records was loaded
C13_Witness ==
    /\ Loaded
    /\ csv_file = CorpusCommas
    /\ Len(ml_service.training_data) = 2

\* the fields of a line as a quote-aware reader splits it: a comma inside quotes
\* separates nothing, and the quotes are no part of a field
RECURSIVE csv_fields(_, _, _, _)
csv_fields(line, i, field, in_quotes) ==
    IF i > Len(line) THEN <<field>>
    ELSE LET c == SubSeq(line, i, i) IN
         IF c = "\"" THEN csv_fields(line, i + 1, field, ~in_quotes)
         ELSE IF c = "," /\ ~in_quotes THEN <<field>> \o csv_fields(line, i + 1, "", FALSE)
         ELSE csv_fields(line, i + 1, field \o c, in_quotes)

\* the record a line of three quote-delimited fields stands for, if it is one
quoted_record(line) ==
    LET fields == csv_fields(str_strip(line, WhiteSpace), 1, "", FALSE) IN
    IF Len(fields) = 3 /\ Sample(fields[1], fields[2], fields[3]) = line
    THEN {[query |-> fields[1], category |-> fields[2], priority |-> fields[3]]}
    ELSE {}

\* C14: every line after the header that is three comma-separated, quote-
\* delimited fields is loaded as the training sample with exactly those three
\* fields, also when the quoted query holds commas.
C14_QuotedFieldsLoaded ==
    Loaded =>
        \A i \in 2..Len(csv_file.lines) :
            \A record \in quoted_record(csv_file.lines[i]) :
                \E j \in 1..Len(ml_service.training_data) :
                    ml_service.training_data[j] = record

-----------------------------------------------------------------------------
(* Properties of the two callers, checked under SpecSubmit *)

\* the request of f has been answered
Responded(f) == f.caller = "submit_complaint" /\ f.pc = "responded"

\* C15: when the classifier's call raises, the submission does not fail for it:
\* the handler goes on with (Technical, medium), so that the request is answered
\* 201 with the complaint committed unless the database or an upload fails, a
\* 500 is never answered without such a failure, and whatever row is committed
\* carries category Technical and priority medium.
C15_FallbackOnClassifierError ==
    \A f \in Frames :
        Responded(f) /\ f.response.raised =>
            /\ f.response.fault = "none" =>
                   f.response.status = 201 /\ f.response.persisted
            /\ f.response.status = 500 => f.response.fault # "none"
            /\ f.response.persisted =>
                   /\ f.response.category = "Technical"
                   /\ f.response.priority = "medium"

\* a submission whose classification raised MemoryError was answered 201, its
\* complaint committed as (Technical, medium), on tables built from a corpus
C15_Witness ==
    \E f \in Frames :
        /\ Responded(f)
        /\ f.exc = "MemoryError"
        /\ f.response = Response(201, TRUE, "Technical", "medium", TRUE, "none")
        /\ ml_service.training_data # <<>>

\* the service each corpus file constructs
FinalService ==
    [file \in SubmitCorpora |-> build_patterns(load_csv_data(NewService, file))]

\* what each text gets from a call on the constructed service
ServedAlone ==
    [file \in SubmitCorpora |->
        [query \in SubmitTexts \cup RouteTexts |->
            classify_user_query(FinalService[file], query)]]

\* C16: no request is served before load_csv_data and build_patterns have both
\* returned: whenever a call from /api/ml/classify or from complaint submission
\* is in progress, construction is over and the service holds its final tables,
\* and the pair a call returns is the one the final tables give.
C16_ServedAfterConstruction ==
    \A f \in Frames :
        /\ ctor = "done"
        /\ ml_service = FinalService[csv_file]
        /\ HasReturned(f) =>
               ServedAlone[csv_file][f.query] = Returned(f.result.category, f.result.priority)

\* a call from each of the two callers has gone through scoring on tables built
\* from a corpus
C16_Witness ==
    \E f, g \in Frames :
        /\ f.caller = "classify_query"
        /\ g.caller = "submit_complaint"
        /\ Scored(f)
        /\ g.pc = "priorities"
        /\ csv_file = CorpusInDomain

-----------------------------------------------------------------------------
(* Properties of label selection and of the rules, checked under SpecCases *)

\* the declaration order of the two enumerations
DeclaredCategories == <<"Technical", "Academic", "Hostel/Mess", "Maintenance">>

DeclaredPriorities == <<"low", "medium", "high", "urgent">>

\* the label of a set that comes first in a declaration order
FirstDeclared(order, labels) ==
    order[CHOOSE i \in 1..Len(order) :
              order[i] \in labels /\ \A j \in 1..(i - 1) : order[j] \notin labels]

\* every label of a table belongs to an enumeration
KeysIn(table, labels) == \A i \in 1..Len(table) : table[i].k \in labels

\* the call went through both scoring steps
ScoredBoth(f) == HasReturned(f) /\ f.predicted_category # ""

\* C17: when two or more priority labels tie for the maximum score and that
\* score is positive, the call returns the tied label that comes first in the
\* order low, medium, high, urgent (stated for tables whose labels are all
\* priority labels).
C17_PriorityTieDeclarationOrder ==
    \A f \in Frames :
        /\ ScoredBoth(f)
        /\ KeysIn(ml_service.priority_patterns, ComplaintPriority)
        /\ Cardinality(max_keys(f.priority_scores)) >= 2
        /\ max_keys(f.priority_scores) \subseteq ComplaintPriority
        /\ dict_max_value(f.priority_scores) > 0
        => f.result.priority = FirstDeclared(DeclaredPriorities, max_keys(f.priority_scores))

\* C18: when two or more categories tie for the maximum score, the call returns
\* the tied label that comes first in the order Technical, Academic,
\* Hostel/Mess, Maintenance, with default tables and corpus-built tables alike,
\* also when a context boost added a label to the scores (stated for tables
\* whose labels are all category labels).
C18_CategoryTieDeclarationOrder ==
    \A f \in Frames :
        /\ ScoredBoth(f)
        /\ KeysIn(ml_service.category_patterns, ComplaintCategory)
        /\ Cardinality(max_keys(f.category_scores)) >= 2
        /\ max_keys(f.category_scores) \subseteq ComplaintCategory
        => f.result.category = FirstDeclared(DeclaredCategories, max_keys(f.category_scores))

\* per text: its first matching rule of Step 1 (0 when none matches) and, for
\* rules 1 and 2, the answer to the hostel/room[/mess] qualifier
Step1First ==
    [query \in CaseTexts |->
        LET query_lower == str_lower(query) IN
        IF MatchingRules(query_lower) = {} THEN [rule |-> 0, also |-> FALSE]
        ELSE [rule |-> LowestRule(query_lower),
              also |-> any_in(Step1Rules[LowestRule(query_lower)].also, query_lower)]]

\* what each text gets from a call run alone on each constructed service
CaseRuns ==
    [file \in CaseCorpora |->
        [query \in CaseTexts |->
            classify_user_query(build_patterns(load_csv_data(NewService, file)), query)]]

\* C19: the pair of a call whose text matches a Step-1 rule is the pair every
\* text with the same first matching rule (and the same qualifier answer) gets
\* under every pattern table, whatever context keywords the texts hold; with
\* rule 4 first, the priority is medium.
C19_RuleResultIndependent ==
    \A f \in Frames :
        HasReturned(f) /\ Step1First[f.query].rule # 0 =>
            /\ \A file \in CaseCorpora : \A query \in CaseTexts :
                   Step1First[query] = Step1First[f.query] =>
                       CaseRuns[file][query] = Returned(f.result.category, f.result.priority)
            /\ Step1First[f.query].rule = 4 => f.result.priority = "medium"

\* a text with rule 4 first and the words urgent, broken and asap in it got
\* (Hostel/Mess, medium) on tables built from a corpus
C19_Witness ==
    \E f \in Frames :
        /\ HasReturned(f)
        /\ f.query = "URGENT broken chair asap"
        /\ Step1First[f.query] = [rule |-> 4, also |-> FALSE]
        /\ f.result = Pair("Hostel/Mess", "medium")
        /\ csv_file = CorpusInDomain

\* per text: does its lower-cased form hold a keyword of a Step-1 rule
HoldsRuleKeyword ==
    [query \in CaseTexts |->
        \E i \in 1..Len(Step1Rules) : \E j \in 1..Len(Step1Rules[i].keys) :
            str_in(Step1Rules[i].keys[j], str_lower(query))]

\* C20: keywords are tested as substrings of the lower-cased text: a call takes
\* the rule shortcut exactly when a rule keyword occurs in it; wifi in upper
\* case gives rule 6, table inside timetable gives rule 4, mess inside message
\* gives rule 3, and the phrase "not working" gives the Maintenance and urgent
\* boosts although no token of the text is that phrase.
C20_SubstringKeywords ==
    \A f \in Frames :
        HasReturned(f) =>
            /\ HoldsRuleKeyword[f.query] <=> f.predicted_category = ""
            /\ f.query = "WIFI DOWN" => f.result = Pair("Technical", "urgent")
            /\ f.query = "Timetable clash" => f.result = Pair("Hostel/Mess", "medium")
            /\ f.query = "Message not delivered" => f.result = Pair("Hostel/Mess", "high")
            /\ f.query = "Projector not working" =>
                   /\ dict_get(f.category_scores, "Maintenance", 0) >= 4
                   /\ dict_get(f.priority_scores, "urgent", 0) >= 3
                   /\ f.result.priority = "urgent"

\* the phrase text was classified urgent on tables that hold neither "not" nor
\* "working", while the timetable text took rule 4
C20_Witness ==
    \E f, g \in Frames :
        /\ HasReturned(f)
        /\ f.query = "Projector not working"
        /\ f.result = Pair("Academic", "urgent")
        /\ csv_file = CorpusInDomain
        /\ HasReturned(g)
        /\ g.query = "Timetable clash"
        /\ g.result = Pair("Hostel/Mess", "medium")

-----------------------------------------------------------------------------
(* Properties of the scoring path *)

\* the first key of a table of scores
FirstKey(scores) == scores[1].k

\* C21: a call that returns through scoring returns, as its priority, a label of
\* maximal score after the boosts when that maximum is above zero, and medium
\* when every priority score is zero, also when medium is not the first label
\* of the priority table.
C21_PriorityAboveZeroOrMedium ==
    \A f \in Frames :
        Scored(f) =>
            IF \E i \in 1..Len(f.priority_scores) : f.priority_scores[i].v > 0
            THEN f.result.priority \in max_keys(f.priority_scores)
            ELSE f.result.priority = "medium"

\* a call returned medium on scores that are all zero, in a table whose first
\* label is urgent, while another returned the label of a positive maximum
C21_Witness ==
    \E f, g \in Frames :
        /\ Scored(f)
        /\ AllZero(f.priority_scores)
        /\ FirstKey(f.priority_scores) = "urgent"
        /\ f.result.priority = "medium"
        /\ Scored(g)
        /\ \E i \in 1..Len(g.priority_scores) : g.priority_scores[i].v > 0
        /\ g.result.priority # "medium"

\* the call has its category scores: it matched no rule and is past line 145
PastCategories(f) ==
    /\ f.pc \in {"priorities", "returned", "raised"}
    /\ f.exc \in {"none", "ValueError"}
    /\ ~EntryValues[f.query].rule.matched

\* how many of the words, each occurrence counted, are entries of the list
ExactHits(words, patterns) ==
    Cardinality({i \in 1..Len(words) : \E j \in 1..Len(patterns) : patterns[j] = words[i]})

\* how many pairs of a word occurrence and a list entry have one inside the other
SubstringPairs(words, patterns) ==
    Cardinality({p \in (1..Len(words)) \X (1..Len(patterns)) :
                    \/ str_in(patterns[p[2]], words[p[1]])
                    \/ str_in(words[p[1]], patterns[p[2]])})

\* the reference scores of Step 2, the category's in halves: 2 per exact hit and
\* 0.5 per substring pair for a category, 2 per exact hit for a priority
ReferenceCategoryScores(table, words) ==
    [i \in 1..Len(table) |->
        [k |-> table[i].k,
         v |-> 4 * ExactHits(words, table[i].v) + SubstringPairs(words, table[i].v)]]

ReferencePriorityScores(table, words) ==
    [i \in 1..Len(table) |->
        [k |-> table[i].k, v |-> 2 * ExactHits(words, table[i].v)]]

\* C22: the scores a call computes in Step 2 are those of the reference formula:
\* its category scores are the context boosts on top of 2 per exact token hit,
\* duplicates counted, plus 0.5 per pair of a token and a list entry with one a
\* substring of the other; its priority scores are the boosts on top of 2 per
\* exact hit alone; and a token that is an entry of a list earns that list at
\* least 2.5.
C22_ScoresAsReference ==
    \A f \in Frames :
        /\ PastCategories(f) =>
               /\ f.category_scores =
                      apply_context_rules(f.query_lower,
                          ReferenceCategoryScores(ml_service.category_patterns, f.words))
               /\ \A i \in 1..Len(ml_service.category_patterns) :
                  \A j \in 1..Len(f.words) :
                      list_has(ml_service.category_patterns[i].v, f.words[j]) =>
                          ReferenceCategoryScores(ml_service.category_patterns,
                                                  <<f.words[j]>>)[i].v >= 5
        /\ Scored(f) =>
               f.priority_scores =
                   apply_priority_context(f.query_lower, f.predicted_category,
                       ReferencePriorityScores(ml_service.priority_patterns, f.words))

\* on tables built from a corpus with printer under Technical and high, the
\* token printer met twice scored 5 for Technical and 4 for high, and the tokens
\* printers and print, neither an entry, scored 1 for Technical and 0 for high
C22_Witness ==
    \E f, g \in Frames :
        /\ csv_file = CorpusInDomain
        /\ Scored(f)
        /\ f.words = <<"printer", "printer">>
        /\ dict_get(f.category_scores, "Technical", 0) = 10
        /\ dict_get(f.priority_scores, "high", 0) = 4
        /\ Scored(g)
        /\ g.words = <<"printers", "print">>
        /\ dict_get(g.category_scores, "Technical", 0) = 2
        /\ dict_get(g.priority_scores, "high", 0) = 0

\* the context boosts as documented: the label, the amount, the trigger keywords;
\* category amounts are in halves
CategoryBoosts == <<
    [label |-> "Hostel/Mess", amount |-> 6, keys |-> <<"hostel", "room">>],
    [label |-> "Maintenance", amount |-> 4,
     keys |-> <<"broken", "not working", "repair", "fix">>],
    [label |-> "Technical", amount |-> 4,
     keys |-> <<"portal", "system", "software", "computer">>],
    [label |-> "Academic", amount |-> 4, keys |-> <<"exam", "grade", "class", "lecture">>] >>

PriorityBoosts == <<
    [label |-> "urgent", amount |-> 5,
     keys |-> <<"urgent", "emergency", "immediately", "asap">>],
    [label |-> "urgent", amount |-> 3, keys |-> <<"broken", "not working", "damaged">>],
    [label |-> "high", amount |-> 2,
     keys |-> <<"important", "needed", "required", "missing">>],
    [label |-> "high", amount |-> 2, keys |-> <<"exam", "grade", "certificate">>] >>

\* the urgent boosts that depend on the selected category
ConditionedBoosts == <<
    [category |-> "Maintenance", label |-> "urgent", amount |-> 2,
     keys |-> <<"water", "electricity", "elevator">>],
    [category |-> "Technical", label |-> "urgent", amount |-> 2,
     keys |-> <<"login", "portal", "wifi">>] >>

\* a boost fires on a text when one of its keywords occurs in it
Fires(b, query_lower) == \E j \in 1..Len(b.keys) : str_in(b.keys[j], query_lower)

\* what the boosts that fire add to a label, each boost once
RECURSIVE BoostTotal(_, _, _)
BoostTotal(boosts, label, query_lower) ==
    IF boosts = <<>> THEN 0
    ELSE (IF Head(boosts).label = label /\ Fires(Head(boosts), query_lower)
          THEN Head(boosts).amount ELSE 0)
         + BoostTotal(Tail(boosts), label, query_lower)

\* the conditioned boosts of a category alone
OfCategory(category) ==
    SelectSeq(ConditionedBoosts, LAMBDA b : b.category = category)

\* texts that hold a keyword of a conditioned boost, and one that holds none
ConditionedTexts == {"wifi down", "Water pipe burst", "system not working"}

\* the labels a table of scores may hold
LabelsOf(scores) == {scores[i].k : i \in 1..Len(scores)}

\* C23: on the scoring path every context boost is added once when one of its
\* keywords occurs in the text and not at all otherwise: a label's category
\* score exceeds its Step-2 score by the amounts of the category boosts that
\* fire, its priority score by those of the priority boosts that fire and of the
\* conditioned boosts of the selected category that fire; a label outside the
\* table has a score only when a boost fired for it; the selected category is
\* a label of maximal boosted category score; and with that category, lines
\* 225-243 add to empty scores, on any text, the boosts that fire on it.
C23_BoostsOnce ==
    \A f \in Frames :
        /\ PastCategories(f) =>
               \E step2 \in {score_categories(ml_service.category_patterns, f.words)} :
                   /\ \A l \in LabelsOf(f.category_scores) \cup LabelsOf(step2) \cup ComplaintCategory :
                          dict_get(f.category_scores, l, 0) =
                              dict_get(step2, l, 0) + BoostTotal(CategoryBoosts, l, f.query_lower)
                   /\ \A l \in LabelsOf(f.category_scores) :
                          \/ l \in LabelsOf(step2)
                          \/ BoostTotal(CategoryBoosts, l, f.query_lower) > 0
                   /\ f.predicted_category \in max_keys(f.category_scores)
        /\ Scored(f) =>
               \E step2 \in {score_priorities(ml_service.priority_patterns, f.words)} :
                   /\ \A l \in LabelsOf(f.priority_scores) \cup LabelsOf(step2) \cup ComplaintPriority :
                          dict_get(f.priority_scores, l, 0) =
                              dict_get(step2, l, 0)
                              + BoostTotal(PriorityBoosts, l, f.query_lower)
                              + BoostTotal(OfCategory(f.predicted_category), l, f.query_lower)
                   /\ \A l \in LabelsOf(f.priority_scores) :
                          \/ l \in LabelsOf(step2)
                          \/ BoostTotal(PriorityBoosts, l, f.query_lower) > 0
                          \/ BoostTotal(OfCategory(f.predicted_category), l, f.query_lower) > 0
        /\ Scored(f) =>
               \A t \in ConditionedTexts :
               \E text \in {EntryValues[t].query_lower} :
               \E added \in {apply_priority_context(text, f.predicted_category, <<>>)} :
               \E conditioned \in {OfCategory(f.predicted_category)} :
                   \A l \in ComplaintPriority :
                       dict_get(added, l, 0) =
                           BoostTotal(PriorityBoosts, l, text)
                           + BoostTotal(conditioned, l, text)

\* on corpus-built tables, a text with three Technical keywords, one of them
\* twice, scored 5 + 2 for Technical, and a text with three urgent keywords,
\* one of them twice, scored 0 + 5 for urgent, a label the table does not hold;
\* the first selected Technical, with which the wifi boost is added, the second
\* selected Academic, with which it is not
C23_Witness ==
    \E f, g \in Frames :
        /\ csv_file = CorpusInDomain
        /\ Scored(f)
        /\ f.query = "system software computer system"
        /\ dict_get(f.category_scores, "Technical", 0) = 14
        /\ Scored(g)
        /\ g.query = "urgent emergency asap urgent"
        /\ dict_get(g.priority_scores, "urgent", 0) = 5
        /\ f.predicted_category = "Technical"
        /\ dict_get(apply_priority_context("wifi down", f.predicted_category, <<>>),
                    "urgent", 0) = 2
        /\ g.predicted_category = "Academic"
        /\ dict_get(apply_priority_context("wifi down", g.predicted_category, <<>>),
                    "urgent", 0) = 0


\* the call took the scoring path: the rules of Step 1 did not match its text
OnScoringPath(f) == ~rule_based_classification(f.query_lower).matched

\* the urgent score after lines 225-229 alone: 2 per exact hit in the urgent
\* list, 5 and 3 for the two unconditioned urgent boosts
UrgentWithoutCategory(f) ==
    2 * ExactHits(f.words, dict_get(ml_service.priority_patterns, "urgent", <<>>))
    + BoostTotal(PriorityBoosts, "urgent", f.query_lower)

\* every text of the model that holds a keyword of a conditioned boost is
\* answered by a rule of Step 1
RulesAnswerConditioned ==
    \A t \in AllTexts :
    \A i \in 1..Len(ConditionedBoosts) :
        Fires(ConditionedBoosts[i], EntryValues[t].query_lower) =>
            EntryValues[t].rule.matched

\* C26: on the scoring path no conditioned priority boost is applied: the text
\* of a call that passed Step 1 holds none of water, electricity, elevator,
\* login, portal and wifi, whatever category was selected; its urgent score is
\* what the pattern hits and the +5 and +3 boosts give, and its priority scores
\* are those computed with no category at all; and every text that holds one
\* of the six keywords is matched by a rule of Step 1.
C26_ConditionedBoostsUnreached ==
    /\ \A f \in Frames :
           Scored(f) =>
               /\ OnScoringPath(f)
               /\ \A i \in 1..Len(ConditionedBoosts) :
                      ~Fires(ConditionedBoosts[i], f.query_lower)
               /\ dict_get(f.priority_scores, "urgent", 0) = UrgentWithoutCategory(f)
               /\ f.priority_scores =
                      apply_priority_context(f.query_lower, "",
                          score_priorities(ml_service.priority_patterns, f.words))
    /\ RulesAnswerConditioned

\* a call that selected Technical and one that selected Maintenance both took
\* the scoring path with urgent scores made of hits and the +3 boost alone,
\* while texts with wifi and with water were answered by the rules
C26_Witness ==
    \E f, g \in Frames :
        /\ csv_file = MissingFile
        /\ Scored(f)
        /\ f.query = "system not working"
        /\ f.predicted_category = "Technical"
        /\ dict_get(f.priority_scores, "urgent", 0) = 7
        /\ Scored(g)
        /\ g.query = "not working not working"
        /\ g.predicted_category = "Maintenance"
        /\ dict_get(g.priority_scores, "urgent", 0) = 11
        /\ EntryValues["wifi down"].rule.matched
        /\ EntryValues["Water pipe burst"].rule.matched

\* a list is in the order of the sort: counts do not increase along it, and of
\* two words counted equally often the one counted first comes first
InCountOrder(list, stream) ==
    \E count \in {Occurrences(stream)} :
    \E first \in {FirstSeen(stream)} :
        \A a, b \in 1..Len(list) :
            a < b =>
                \/ count[list[a]] > count[list[b]]
                \/ count[list[a]] = count[list[b]] /\ first[list[a]] < first[list[b]]

\* every repeated word the cut left out comes, in that order, after every word
\* the list kept
CutInCountOrder(list, stream) ==
    \E count \in {Occurrences(stream)} :
    \E first \in {FirstSeen(stream)} :
        \A w \in DOMAIN count :
            count[w] > 1 /\ ~list_has(list, w) =>
                \A k \in 1..Len(list) : list[k] \in Ahead(w, count, first)

\* C24: every list of the built tables is in non-increasing order of count, words
\* counted equally often are in the order in which they were first counted under
\* the label, and the repeated words the cut at 50 or 30 drops are those that
\* come last in that order.
C24_TiesInFirstCountedOrder ==
    Constructed /\ ml_service.training_data # <<>> =>
        /\ \A i \in 1..Len(ml_service.category_patterns) :
           \E stream \in {label_stream(ml_service.training_data, "category",
                                       ml_service.category_patterns[i].k)} :
               /\ InCountOrder(ml_service.category_patterns[i].v, stream)
               /\ CutInCountOrder(ml_service.category_patterns[i].v, stream)
        /\ \A i \in 1..Len(ml_service.priority_patterns) :
           \E stream \in {label_stream(ml_service.training_data, "priority",
                                       ml_service.priority_patterns[i].k)} :
               /\ InCountOrder(ml_service.priority_patterns[i].v, stream)
               /\ CutInCountOrder(ml_service.priority_patterns[i].v, stream)

\* of 52 words counted twice, in the order baz ... sez, and two words counted
\* three times after them, the list of 50 holds the two and the first 48, and
\* the list of 30 the two and the first 28
C24_Witness ==
    /\ Constructed
    /\ csv_file = CorpusManyWords
    /\ \E list \in {dict_get(ml_service.category_patterns, "Technical", <<>>)} :
           /\ Len(list) = 50
           /\ SubSeq(list, 1, 4) = <<"toner", "cartridge", "baz", "bez">>
           /\ list[50] = "riz"
           /\ ~list_has(list, "roz")
    /\ \E list \in {dict_get(ml_service.priority_patterns, "high", <<>>)} :
           /\ Len(list) = 30
           /\ list[30] = "liz"
           /\ ~list_has(list, "loz")

-----------------------------------------------------------------------------
(* Properties of extract_words *)

\* the character at position i of a text
CharAt(text, i) == SubSeq(text, i, i)

\* an ASCII letter or digit
IsWordChar(c) == CharIn(c, LowerCase) \/ CharIn(c, UpperCase) \/ CharIn(c, Digits)

\* the lower-case form of a character, by its place in the alphabet
LowerOf(c) ==
    IF \E i \in 1..Len(UpperCase) : CharAt(UpperCase, i) = c
    THEN CharAt(LowerCase, CHOOSE i \in 1..Len(UpperCase) : CharAt(UpperCase, i) = c)
    ELSE c

\* the pieces of a text: the maximal runs a..b of letters and digits
Pieces(text) ==
    {p \in (1..Len(text)) \X (1..Len(text)) :
        /\ p[1] <= p[2]
        /\ \A i \in p[1]..p[2] : IsWordChar(CharAt(text, i))
        /\ p[1] = 1 \/ ~IsWordChar(CharAt(text, p[1] - 1))
        /\ p[2] = Len(text) \/ ~IsWordChar(CharAt(text, p[2] + 1))}

\* the pieces longer than 2 characters
LongPieces(text) == {p \in Pieces(text) : p[2] - p[1] + 1 > 2}

\* the k-th of a set of pieces, from the left
PieceAt(pieces, k) ==
    CHOOSE p \in pieces : Cardinality({q \in pieces : q[1] < p[1]}) = k - 1

\* a token is the lower-case form of a piece
IsLowered(token, text, p) ==
    /\ Len(token) = p[2] - p[1] + 1
    /\ \A i \in 1..Len(token) : CharAt(token, i) = LowerOf(CharAt(text, p[1] + i - 1))

\* C25: the words a call extracts from its text are the lower-case forms of the
\* text's maximal runs of ASCII letters and digits that are longer than 2
\* characters, in the order of the text, one word per run; every word has at
\* least 3 characters, all lower-case letters or digits; and the same text
\* gives the same words in every call.
C25_ExtractedWords ==
    \A f \in Frames :
        /\ \E pieces \in {LongPieces(f.query)} :
               /\ Len(f.words) = Cardinality(pieces)
               /\ \A k \in 1..Len(f.words) :
                      IsLowered(f.words[k], f.query, PieceAt(pieces, k))
        /\ \A k \in 1..Len(f.words) :
               /\ Len(f.words[k]) >= 3
               /\ \A i \in 1..Len(f.words[k]) :
                      \/ CharIn(CharAt(f.words[k], i), LowerCase)
                      \/ CharIn(CharAt(f.words[k], i), Digits)
        /\ \A g \in Frames : g.query = f.query => g.words = f.words

\* calls extracted def and ghi from a text with pieces of one and two characters
\* and upper case, and lab2 three times from a text that holds it in both cases
C25_Witness ==
    \E f, g \in Frames :
        /\ f.query = "a bc def GHI"
        /\ f.words = <<"def", "ghi">>
        /\ g.query = "lab2 lab2 LAB2"
        /\ g.words = <<"lab2", "lab2", "lab2">>

-----------------------------------------------------------------------------
(* Properties of the routes that write to the database, checked under SpecRoutes *)

\* the requests for feedback, and those that submit a complaint
FeedbackRequests == {r \in Requests : r.route = "submit_feedback"}

SubmitRequests == {r \in Requests : r.route = "submit_complaint"}

\* the principal of the request is the student or faculty user who filed the row
FiledBy(row, data) ==
    /\ data.role \in {"student", "faculty"}
    /\ data.user_id # 0
    /\ data.user_id = row.user_id

\* C27: feedback for a complaint is created only by a request of the student or
\* faculty user who filed it: a request for feedback on an existing complaint
\* by any other principal, an admin whose id equals the complaint's user_id
\* included, is answered 403 and never reaches the commit, and every request
\* that created feedback came from the user who filed the complaint.
C27_FeedbackByOwnerOnly ==
    \A r \in FeedbackRequests :
    \A row \in complaint_rows(db, r.complaint_id) :
        /\ r.status = 201 => FiledBy(row, r.data)
        /\ ~FiledBy(row, r.data) => r.pc = "responded" /\ r.status = 403

\* C28: in every state reached by submissions and status updates, a complaint's
\* resolved_at is non-null exactly when its status is resolved or closed, also
\* after a resolved or closed complaint is moved back to pending or in_progress.
C28_ResolvedAtIffResolved ==
    \A i \in 1..Len(db.complaints) :
        db.complaints[i].resolved_at # Null
            <=> db.complaints[i].status \in {"resolved", "closed"}

\* C29: no complaint ever has more than one feedback row, also when two requests
\* for feedback on it both passed the check of line 629 before either committed:
\* of the requests on one complaint that reached the commit, at most one is
\* answered 201 and every other one 500, with its row rolled back.
C29_OneFeedbackPerComplaint ==
    /\ \A complaint_id \in 1..db.complaints_id_seq :
           Cardinality(feedback_rows(db, complaint_id)) <= 1
    /\ \A r, s \in FeedbackRequests :
           /\ r.complaint_id = s.complaint_id
           /\ r.status = 201
           /\ s.status = 201
           => r = s /\ CopiesIn(r, requests) = 1
    /\ \A r \in FeedbackRequests :
           r.status = 201 => feedback_rows(db, r.complaint_id) # {}

\* two requests for feedback on one complaint both reached the commit; one was
\* answered 201 and the other 500, and the complaint has one feedback row
C29_Witness ==
    \E r, s \in FeedbackRequests :
        /\ r.complaint_id = s.complaint_id
        /\ r.pc = "responded"
        /\ r.status = 201
        /\ s.pc = "responded"
        /\ s.status = 500
        /\ complaint_rows(db, s.complaint_id) # {}
        /\ Cardinality(feedback_rows(db, r.complaint_id)) = 1

\* the request went as far as the files and one of them, the first that the
\* loop of lines 125-158 tried and did not upload, failed
UploadFailed(r) ==
    /\ r.complaint_id # 0
    /\ \E k \in 1..Len(r.files) : r.files[k].filename # "" /\ r.files[k].upload # "ok"

\* the files of the request that have a name
NamedFiles(r) == {k \in 1..Len(r.files) : r.files[k].filename # ""}

\* C30: a submission is all or nothing: when an upload of one of its attachments
\* fails or raises, the request is answered with an error and neither the
\* complaint nor any attachment row is committed, the rows of the files
\* uploaded before the failure included; a request answered 201 has its
\* complaint and one attachment row per named file; and no attachment row is
\* without its complaint.
C30_SubmissionAllOrNothing ==
    /\ \A r \in SubmitRequests :
           /\ UploadFailed(r) =>
                  /\ r.status \in {400, 500}
                  /\ complaint_rows(db, r.complaint_id) = {}
                  /\ attachment_rows(db, r.complaint_id) = {}
           /\ r.status = 201 =>
                  /\ complaint_rows(db, r.complaint_id) # {}
                  /\ Cardinality(attachment_rows(db, r.complaint_id))
                         = Cardinality(NamedFiles(r))
    /\ \A i \in 1..Len(db.complaint_attachments) :
           complaint_rows(db, db.complaint_attachments[i].complaint_id) # {}

\* a submission whose second file was rejected after its first was uploaded was
\* answered 400 and left no row under the id its flush was given, and a later
\* one was answered 201 with its complaint and two attachment rows
C30_Witness ==
    \E r, s \in SubmitRequests :
        /\ UploadFailed(r)
        /\ r.files[1].upload = "ok"
        /\ r.status = 400
        /\ r.complaint_id = 1
        /\ complaint_rows(db, 1) = {}
        /\ attachment_rows(db, 1) = {}
        /\ s.status = 201
        /\ s.complaint_id = 2
        /\ complaint_rows(db, 2) # {}
        /\ Cardinality(attachment_rows(db, 2)) = 2

====
